---- MODULE Spec2Model ----
(***************************************************************************)
(* Kerberos ticket lifecycle of middlewared/plugins/kerberos.py:           *)
(* KerberosService.start / stop / renew / status and the wait_for_renewal  *)
(* job (Spec, SpecCache), and the calls do_kinit (SpecKinit) and get_cred  *)
(* (SpecCred) on their own.                                                *)
(*                                                                         *)
(* middlewared runs every coroutine on one asyncio loop, so the code       *)
(* between two awaits is one atomic step.  A thread of the model is either *)
(* an RPC caller or a wait_for_renewal job; its pc names the await it is   *)
(* suspended at.  Every external tool run (kinit, klist, kdestroy) is one  *)
(* step whose outcome the environment chooses; the code that follows the   *)
(* tool's return up to the next await belongs to the same step.            *)
(***************************************************************************)
EXTENDS Integers, Sequences, FiniteSets, TLC

\* ---------------------------------------------------------------- bounds
MaxTime == 3600
MaxJobs == 2

\* ------------------------------------------------------ program constants
KRB_TKT_CHECK_INTERVAL == 1800

\* Clock advances the model takes in one step (seconds).
TickSet == {900}
\* Ticket lifetimes / renewable lifetimes the KDC may grant (seconds).
Lifetimes == {1800, 3600}
RenewLifetimes == {5400, 7200}

\* One RPC caller (negative id) issues start(), stop(), renew() and status()
\* calls one after the other; its steps interleave with those of the wait_for_renewal
\* jobs (ids 1..MaxJobs), which call renew() and start() themselves.
Callers == {-1}
JobIds == 1..MaxJobs
Threads == Callers \cup JobIds

\* No credential cache file / no snapshot held.
NoCache == [exists |-> FALSE, expires |-> 0, renew_until |-> 0, renewable |-> FALSE]

Ticket(e, ru, r) == [exists |-> TRUE, expires |-> e, renew_until |-> ru, renewable |-> r]

VARIABLES
    now,        \* time.time()
    ccache,     \* the TGT in krb5ccache.SYSTEM, or NoCache
    ds_enabled, \* a directory service with kerberos is enabled (payload of _kinit)
    jobstate,   \* state of every wait_for_renewal job
    kdc,        \* the KDC's policy: lifetime and renewability of the tickets it grants
    th,         \* every thread's position and locals
    ev,         \* the last step taken (history)
    others,     \* the credential caches other than krb5ccache.SYSTEM, by path
    kin,        \* a do_kinit call: its arguments, position and effects
    cred,       \* a get_cred call: its arguments, position and result
    kt,         \* the keytab reconciler: keytab files, keytab records, position
    pk,         \* a parse_klist call: its text, position and result
    dns         \* an unregister_dns call: its arguments, position and effects

vars == <<now, ccache, ds_enabled, kdc, jobstate, th, ev, others, kin, cred, kt, pk,
          dns>>

\* The units studied on their own besides do_kinit and get_cred.
units == <<kt, pk, dns>>

\* The calls of do_kinit and get_cred studied on their own.
calls == <<kin, cred>>

\* ------------------------------------------------------ credential caches
\* lines 27-30: the cache files, relative to MIDDLEWARE_RUN_DIR.
krb5ccache ==
    [SYSTEM |-> "krb5cc_0", TEMP |-> "krb5cc_middleware_temp", USER |-> "krb5cc_"]

\* Mutant: the default cache selector is the temporary cache.
kerberos_options_temp == [ccache |-> "TEMP", ccache_uid |-> 0]

\* lines 181-186: the defaults of 'kerberos-options', which start(), stop(),
\* renew(), status() and wait_for_renewal never override.
kerberos_options == [ccache |-> "SYSTEM", ccache_uid |-> 0]

\* lines 171-178
ccache_path(data) ==
    IF data.ccache = "USER"
    THEN krb5ccache[data.ccache] \o ToString(data.ccache_uid)
    ELSE krb5ccache[data.ccache]

\* line 214: default_ccache_name of the krb5 configuration, the cache a tool
\* run without -c works on (kinit -R, line 652).
DefaultCcName == krb5ccache.SYSTEM

\* The uids of the model's User caches.
Uids == {0, 1000}

\* The cache files other than the System cache: the temporary cache, a user's
\* cache, and the bare USER prefix.
OtherPaths ==
    ({ccache_path([ccache |-> c, ccache_uid |-> u]) : c \in DOMAIN krb5ccache, u \in Uids}
        \cup {krb5ccache[c] : c \in DOMAIN krb5ccache}) \ {krb5ccache.SYSTEM}

\* A tool writes the ticket tk into the cache file at path: the System cache
\* keeps the ticket, of another cache the model keeps that it was acquired.
WriteCache(path, tk) ==
    IF path = krb5ccache.SYSTEM
    THEN ccache' = tk /\ UNCHANGED others
    ELSE others' = [others EXCEPT ![path] = "acquired"] /\ UNCHANGED ccache

\* kdestroy removes the cache file at path.
DestroyCache(path) ==
    IF path = krb5ccache.SYSTEM
    THEN ccache' = NoCache /\ UNCHANGED others
    ELSE others' = [others EXCEPT ![path] = "absent"] /\ UNCHANGED ccache

\* No do_kinit / get_cred call under study.
NoCall == [pc |-> "none"]

\* ------------------------------------------------------------ job options
\* @job(lock="kerberos_renew_watch", transient=True, lock_queue_size=1)
\* Mutants: the decorator without a lock, and with a wait queue of two.
wait_for_renewal_options_nolock ==
    [lock |-> "none", transient |-> TRUE, lock_queue_size |-> 1]

wait_for_renewal_options_queue2 ==
    [lock |-> "kerberos_renew_watch", transient |-> TRUE, lock_queue_size |-> 2]

wait_for_renewal_options ==
    [lock |-> "kerberos_renew_watch", transient |-> TRUE, lock_queue_size |-> 1]

\* ------------------------------------------------------------- job queue
QueuedJobs == {j \in JobIds : jobstate[j] = "WAITING"}
RunningJobs == {j \in JobIds : jobstate[j] = "RUNNING"}
FreshIds == {j \in JobIds : jobstate[j] = "NONE"}
LiveJobs == QueuedJobs \cup RunningJobs

SetMin(S) == CHOOSE x \in S : \A y \in S : x <= y
SetMax(S) == CHOOSE x \in S : \A y \in S : x >= y

\* Mutant: a waiting job leaves the queue whatever holds its lock.
LockFree_always(opts) == TRUE

\* The job lock: a job may leave the queue when no job holding its lock runs.
LockFree(opts) == opts.lock = "none" \/ RunningJobs = {}

\* The bounded wait queue: a call finding lock_queue_size jobs already
\* waiting on the lock gets the last of them back and adds nothing.
QueueFull(opts) == Cardinality(QueuedJobs) >= opts.lock_queue_size

\* core.job_abort cancels the job's coroutine at the await it is suspended
\* at: the job ends ABORTED and releases its lock.
JobAbort(j) == [jobstate EXCEPT ![j] = "ABORTED"]

\* --------------------------------------------------------------- threads
IdleTh == [op |-> "idle", pc |-> "idle", wake |-> 0, launched |-> 0]
NewJobTh == [op |-> "wfr", pc |-> "new", wake |-> 0, launched |-> 0]
RunJobTh == [op |-> "wfr", pc |-> "w_klist", wake |-> 0, launched |-> 0]
DoneJobTh == [op |-> "wfr", pc |-> "done", wake |-> 0, launched |-> 0]

\* A thread can take a step: callers always, jobs while RUNNING.
Active(t) == IF t \in Callers THEN TRUE ELSE jobstate[t] = "RUNNING"

At(t, l) == Active(t) /\ th[t].pc = l

\* The history of the last step: the thread, its RPC operation, the await that
\* completed (a), what the code decided or how the function ended (d), what
\* the wait_for_renewal loop went on to (loop), the job created or aborted,
\* the jobs this start() has enqueued, the ticket the step read or wrote, and
\* the end of the sleep an abort interrupted (wake).
NoEvent == [t |-> 0, op |-> "idle", a |-> "init", d |-> "", loop |-> "",
            job |-> 0, launched |-> 0, tk |-> NoCache, wake |-> 0, proc |-> ""]

\* What a cancelled await leaves of the external process it waited for.
\* run() of middlewared.utils (not part of these sources) ends the process it
\* spawned when its await is cancelled, as the specification requires.
CancelledRun == "terminated"

\* do_kinit with a password, lines 475-479: Popen and communicate(); the
\* cancellation leaves communicate() and nothing ends the process.
CancelledPopen == "running"

\* proc: the external process of an await that timed out, after the error.
Event(t, a, d, loop, j, n, tk) ==
    [t |-> t, op |-> th[t].op, a |-> a, d |-> d, loop |-> loop,
     job |-> j, launched |-> n, tk |-> tk, wake |-> 0,
     proc |-> IF d = "timeout" THEN CancelledRun ELSE ""]

Log(t, a, d) == ev' = Event(t, a, d, "", 0, th[t].launched, NoCache)

Goto(t, l) == th' = [th EXCEPT ![t].pc = l]

\* return await self.start() in renew(): line 703, etc.generate, writes only
\* the configuration file; the thread is next suspended at the acquisition.
EnterStart(t) == th' = [th EXCEPT ![t].pc = "s_kinit", ![t].launched = 0]

\* An exception leaves the coroutine: the RPC call ends with the error, a job
\* ends FAILED and releases its lock.
Raise(t) ==
    IF t \in Callers
    THEN th' = [th EXCEPT ![t] = IdleTh] /\ UNCHANGED jobstate
    ELSE th' = [th EXCEPT ![t] = DoneJobTh]
         /\ jobstate' = [jobstate EXCEPT ![t] = "FAILED"]

\* Mutant: the comparison of line 729 inverted.
WfrSleeps_inverted(tk, current_time) ==
    (tk.expires - (current_time + KRB_TKT_CHECK_INTERVAL)) < 0

\* line 729: sleep while the ticket outlives the next check, else renew().
WfrSleeps(tk, current_time) ==
    (tk.expires - (current_time + KRB_TKT_CHECK_INTERVAL)) > 0

\* lines 718-734: one turn of the wait_for_renewal loop on the snapshot s:
\* asyncio.sleep(KRB_TKT_CHECK_INTERVAL), or renew() up to its first await.
WfrTurn(s) == IF WfrSleeps(s, now) THEN "sleep" ELSE "renew"

WfrLoop(j, s) ==
    IF WfrTurn(s) = "sleep"
    THEN th' = [th EXCEPT ![j].pc = "w_sleep",
                          ![j].wake = now + KRB_TKT_CHECK_INTERVAL]
    ELSE th' = [th EXCEPT ![j].pc = "r_test"]

\* What the thread goes on to when renew() returns the snapshot s: the RPC
\* call ends, or the loop of wait_for_renewal takes its next turn (line 734).
AfterRenew(t, s) == IF th[t].op = "wfr" THEN WfrTurn(s) ELSE ""

\* Mutant: wait_for_renewal returns once its renew() has returned.
ReturnRenew_once(t, s) ==
    IF th[t].op = "wfr"
    THEN th' = [th EXCEPT ![t] = DoneJobTh]
    ELSE th' = [th EXCEPT ![t] = IdleTh]

ReturnRenew(t, s) ==
    IF th[t].op = "wfr"
    THEN WfrLoop(t, s)
    ELSE th' = [th EXCEPT ![t] = IdleTh]

\* start() returns the snapshot s: to the RPC caller, or as the result of the
\* renew() that called it (return await self.start()).
AfterStart(t, s) == IF th[t].op = "start" THEN "" ELSE AfterRenew(t, s)

ReturnStart(t, s) ==
    IF th[t].op = "start"
    THEN th' = [th EXCEPT ![t] = IdleTh]
    ELSE ReturnRenew(t, s)

\* ------------------------------------------------------- external tools
\* klist -s: exit 0 iff the cache holds a ticket that has not expired.
KlistTestValid == ccache.exists /\ ccache.expires > now

\* klist -ef <ccache>: lists the cache (expired tickets included), fails when
\* there is no cache, may fail or hang for reasons of its own.  A cache that
\* exists holds its ticket-granting ticket, so the filter_list of lines
\* 629-633 and 720-724 finds it.
KlistOutcomes == IF ccache.exists THEN {"ok", "fail", "timeout"} ELSE {"fail", "timeout"}

\* kinit: the KDC grants a ticket under its policy.
KdcPolicies ==
    {[life |-> l, renew_life |-> rl, renewable |-> TRUE] :
        l \in Lifetimes, rl \in RenewLifetimes}
    \cup {[life |-> l, renew_life |-> 0, renewable |-> FALSE] : l \in Lifetimes}

KinitTicket ==
    Ticket(now + kdc.life, IF kdc.renewable THEN now + kdc.renew_life ELSE 0,
           kdc.renewable)

\* kinit -R: the KDC renews an unexpired renewable ticket up to renew_until.
CanRenew == /\ ccache.exists /\ ccache.renewable
            /\ ccache.expires > now /\ ccache.renew_until > now

RenewedTicket ==
    Ticket(IF now + kdc.life > ccache.renew_until
           THEN ccache.renew_until ELSE now + kdc.life,
           ccache.renew_until, TRUE)

\* The timeout each await of an external tool runs under, in seconds; 0 where
\* the code sets none: klist (line 607, default of line 599), kinit -R (line
\* 652), the acquisition of start() (line 705, default of line 698), the
\* klist -s of status() (line 670), the klist -s of renew() (line 619) and the
\* kdestroy of stop() (line 679).
ToolTimeout ==
    [klist |-> 10, kinit_R |-> 15, kinit |-> 30, status |-> 10,
     klist_test |-> 0, kdestroy |-> 0]

\* A tool that never returns is waited for without end.
Unbounded(tool) == ToolTimeout[tool] = 0

\* ---------------------------------------------------------------- Init
Init ==
    /\ now = 0
    /\ ccache = NoCache
    /\ ds_enabled \in BOOLEAN
    /\ kdc \in KdcPolicies
    /\ jobstate = [j \in JobIds |-> "NONE"]
    /\ th = [t \in Threads |-> IF t \in Callers THEN IdleTh ELSE NewJobTh]
    /\ ev = NoEvent
    /\ others = [p \in OtherPaths |-> "absent"]
    /\ kin = NoCall
    /\ cred = NoCall
    /\ kt = NoCall
    /\ pk = NoCall
    /\ dns = NoCall

\* ------------------------------------------------------------ RPC entry
\* start(): line 703, etc.generate, writes only the configuration file; the
\* call is next suspended at the acquisition.
CallStart(c) ==
    /\ c \in Callers /\ th[c].pc = "idle"
    /\ th' = [th EXCEPT ![c] = [IdleTh EXCEPT !.op = "start", !.pc = "s_kinit"]]
    /\ ev' = [NoEvent EXCEPT !.t = c, !.op = "start", !.a = "call"]
    /\ UNCHANGED <<now, ccache, others, ds_enabled, kdc, jobstate, kin, cred, units>>

CallStop(c) ==
    /\ c \in Callers /\ th[c].pc = "idle"
    /\ th' = [th EXCEPT ![c] = [IdleTh EXCEPT !.op = "stop", !.pc = "st_jobs"]]
    /\ ev' = [NoEvent EXCEPT !.t = c, !.op = "stop", !.a = "call"]
    /\ UNCHANGED <<now, ccache, others, ds_enabled, kdc, jobstate, kin, cred, units>>

CallRenew(c) ==
    /\ c \in Callers /\ th[c].pc = "idle"
    /\ th' = [th EXCEPT ![c] = [IdleTh EXCEPT !.op = "renew", !.pc = "r_test"]]
    /\ ev' = [NoEvent EXCEPT !.t = c, !.op = "renew", !.a = "call"]
    /\ UNCHANGED <<now, ccache, others, ds_enabled, kdc, jobstate, kin, cred, units>>

CallStatus(c) ==
    /\ c \in Callers /\ th[c].pc = "idle"
    /\ th' = [th EXCEPT ![c] = [IdleTh EXCEPT !.op = "status", !.pc = "stat_test"]]
    /\ ev' = [NoEvent EXCEPT !.t = c, !.op = "status", !.a = "call"]
    /\ UNCHANGED <<now, ccache, others, ds_enabled, kdc, jobstate, kin, cred, units>>

\* ---------------------------------------------------------------- start
\* Mutant: the TimeoutError of the acquisition swallowed.
StartKinit_swallowTimeout(t) ==
    /\ At(t, "s_kinit")
    /\ UNCHANGED <<now, ds_enabled, kdc, ccache, others, jobstate, kin, cred, units>>
    /\ Goto(t, "s_wfr")
    /\ Log(t, "kinit", "timeout")

\* The kinit process when the acquisition is cancelled: none spawned yet, the
\* run() of a keytab kinit (line 468), or the Popen of a password kinit.
KinitCancelled == IF ds_enabled THEN {"", CancelledRun, CancelledPopen} ELSE {""}

\* lines 704-707: asyncio.wait_for(_kinit(), timeout=kinit_timeout).
\* _kinit (488-524) returns without a kinit when no directory service is
\* enabled; otherwise get_cred/do_kinit acquire a ticket or raise CallError.
StartKinit(t) ==
    /\ At(t, "s_kinit")
    /\ UNCHANGED <<now, ds_enabled, kdc, kin, cred, units>>
    /\ \/ /\ ~ds_enabled
          /\ Goto(t, "s_wfr")
          /\ Log(t, "kinit", "none")
          /\ UNCHANGED <<ccache, others, jobstate>>
       \/ /\ ds_enabled
          /\ WriteCache(ccache_path(kerberos_options), KinitTicket)
          /\ ev' = Event(t, "kinit", "ok", "", 0, th[t].launched, KinitTicket)
          /\ Goto(t, "s_wfr")
          /\ UNCHANGED jobstate
       \/ /\ ds_enabled
          /\ Raise(t)
          /\ Log(t, "kinit", "fail")
          /\ UNCHANGED <<ccache, others>>
       \/ /\ Raise(t)
          /\ \E p \in KinitCancelled :
                ev' = [Event(t, "kinit", "timeout", "", 0, th[t].launched, NoCache)
                          EXCEPT !.proc = p]
          /\ UNCHANGED <<ccache, others>>

\* line 709: await self.middleware.call('kerberos.wait_for_renewal') hands the
\* job to the queue and returns the Job without waiting for it.  Job ids are
\* never reused; the model creates at most MaxJobs jobs.
StartWfr(t) ==
    /\ At(t, "s_wfr")
    /\ UNCHANGED <<now, ccache, others, ds_enabled, kdc, kin, cred, units>>
    /\ IF QueueFull(wait_for_renewal_options)
       THEN /\ Goto(t, "s_klist")
            /\ ev' = Event(t, "wfr", "queued", "", SetMax(QueuedJobs),
                           th[t].launched, NoCache)
            /\ UNCHANGED jobstate
       ELSE /\ FreshIds # {}
            /\ LET j == SetMin(FreshIds) IN
                /\ jobstate' = [jobstate EXCEPT ![j] = "WAITING"]
                /\ th' = [th EXCEPT ![t].pc = "s_klist", ![t].launched = @ + 1]
                /\ ev' = Event(t, "wfr", "new", "", j, th[t].launched + 1, NoCache)

\* line 710: return await self.klist()
StartKlist(t) ==
    /\ At(t, "s_klist")
    /\ UNCHANGED <<now, ccache, others, ds_enabled, kdc, kin, cred, units>>
    /\ \E o \in KlistOutcomes :
        IF o = "ok"
        THEN /\ ReturnStart(t, ccache)
             /\ ev' = Event(t, "start_klist", "return", AfterStart(t, ccache), 0,
                            th[t].launched, ccache)
             /\ UNCHANGED jobstate
        ELSE /\ Raise(t)
             /\ Log(t, "start_klist", o)

\* --------------------------------------------------------------- status
\* lines 180-197: klist -s <ccache>; its exit code is 0 only for a cache that
\* holds an unexpired ticket, and it may fail for reasons of its own.
KlistTestCodes == IF KlistTestValid THEN {0, 1} ELSE {1}

\* Mutant: the TimeoutError of the status check propagates (no except clause).
StatusResult_propagates(o) ==
    IF o = "timeout" THEN "timeout" ELSE IF o = "rc0" THEN "true" ELSE "false"

\* lines 669-674 with 193-197: what status() returns for the outcome o of
\* klist -s under the 10 s timeout.
StatusResult(o) == IF o = "rc0" THEN "true" ELSE "false"

\* lines 662-674: status() is one await; it ends the call in every case.
StatusTest(t) ==
    /\ At(t, "stat_test")
    /\ UNCHANGED <<now, ccache, others, ds_enabled, kdc, jobstate, kin, cred, units>>
    /\ \E o \in {"timeout"} \cup {IF rc = 0 THEN "rc0" ELSE "rc1" : rc \in KlistTestCodes} :
        /\ th' = [th EXCEPT ![t] = IdleTh]
        /\ ev' = Event(t, "status", StatusResult(o), o, 0, 0, ccache)

\* ---------------------------------------------------------------- renew
\* lines 619-621: if not await self._klist_test(): return await self.start()
\* The klist -s of line 619 runs under no timeout: when it hangs, renew() stays
\* suspended at it.
RenewTest(t) ==
    /\ At(t, "r_test")
    /\ UNCHANGED <<now, ccache, others, ds_enabled, kdc, jobstate, kin, cred, units>>
    /\ \/ \E rc \in KlistTestCodes :
            IF rc = 0
            THEN /\ Goto(t, "r_klist")
                 /\ ev' = Event(t, "klist_test", "valid", "", 0, th[t].launched, ccache)
            ELSE /\ EnterStart(t)
                 /\ ev' = Event(t, "klist_test", "start", "", 0, 0, ccache)
       \/ /\ Unbounded("klist_test")
          /\ Goto(t, "hung")
          /\ ev' = Event(t, "klist_test", "hang", "", 0, th[t].launched, ccache)

\* Mutant: the expiry check of lines 636-638 left out.
RenewDecision_noExpiry(tk, current_time) ==
    LET remaining == tk.expires - current_time IN
    IF remaining > KRB_TKT_CHECK_INTERVAL THEN "return"
    ELSE IF ~tk.renewable THEN "start_not_renewable"
    ELSE IF (2 * KRB_TKT_CHECK_INTERVAL) + current_time > tk.renew_until
         THEN "start_deadline"
    ELSE "kinit_R"

\* Mutant: the re-acquisition checks of lines 643-649 left out.
RenewDecision_alwaysRenew(tk, current_time) ==
    LET remaining == tk.expires - current_time IN
    IF remaining < 0 THEN "start_expired"
    ELSE IF remaining > KRB_TKT_CHECK_INTERVAL THEN "return"
    ELSE "kinit_R"

\* Mutant: the deadline of line 647 taken one check interval too late.
RenewDecision_lateDeadline(tk, current_time) ==
    LET remaining == tk.expires - current_time IN
    IF remaining < 0 THEN "start_expired"
    ELSE IF remaining > KRB_TKT_CHECK_INTERVAL THEN "return"
    ELSE IF ~tk.renewable THEN "start_not_renewable"
    ELSE IF KRB_TKT_CHECK_INTERVAL + current_time > tk.renew_until
         THEN "start_deadline"
    ELSE "kinit_R"

\* lines 627-649: what renew() does with the ticket-granting ticket tk of the
\* snapshot at time current_time.
RenewDecision(tk, current_time) ==
    LET remaining == tk.expires - current_time IN
    IF remaining < 0 THEN "start_expired"
    ELSE IF remaining > KRB_TKT_CHECK_INTERVAL THEN "return"
    ELSE IF ~tk.renewable THEN "start_not_renewable"
    ELSE IF (2 * KRB_TKT_CHECK_INTERVAL) + current_time > tk.renew_until
         THEN "start_deadline"
    ELSE "kinit_R"

\* line 623: tgt_info = await self.klist()   (10 s timeout, lines 604-613),
\* then lines 627-651 up to the await of start() or of kinit -R.
RenewKlist(t) ==
    /\ At(t, "r_klist")
    /\ UNCHANGED <<now, ccache, others, ds_enabled, kdc, kin, cred, units>>
    /\ \E o \in KlistOutcomes :
        IF o = "ok"
        THEN LET d == RenewDecision(ccache, now) IN
             /\ IF d = "return" THEN ReturnRenew(t, ccache)
                ELSE IF d = "kinit_R" THEN Goto(t, "r_kinitR")
                ELSE EnterStart(t)
             /\ ev' = Event(t, "renew_klist", d,
                            IF d = "return" THEN AfterRenew(t, ccache) ELSE "",
                            0, 0, ccache)
             /\ UNCHANGED jobstate
        ELSE /\ Raise(t)
             /\ Log(t, "renew_klist", o)

\* Mutant: a failed or timed-out kinit -R is logged and renew() carries on.
RenewKinitR_carriesOn(t) ==
    /\ At(t, "r_kinitR")
    /\ UNCHANGED <<now, ds_enabled, kdc, jobstate, kin, cred, units>>
    /\ \/ /\ CanRenew
          /\ WriteCache(DefaultCcName, RenewedTicket)
          /\ ev' = Event(t, "kinit_R", "ok", "", 0, th[t].launched, RenewedTicket)
          /\ Goto(t, "r_klist2")
       \/ /\ Goto(t, "r_klist2")
          /\ Log(t, "kinit_R", "fail")
          /\ UNCHANGED <<ccache, others>>
       \/ /\ Goto(t, "r_klist2")
          /\ Log(t, "kinit_R", "timeout")
          /\ UNCHANGED <<ccache, others>>

\* lines 651-656: kinit -R under a 15 s timeout; a non-zero exit and a timeout
\* both raise CallError.
RenewKinitR(t) ==
    /\ At(t, "r_kinitR")
    /\ UNCHANGED <<now, ds_enabled, kdc, kin, cred, units>>
    /\ \/ /\ CanRenew
          /\ WriteCache(DefaultCcName, RenewedTicket)
          /\ ev' = Event(t, "kinit_R", "ok", "", 0, th[t].launched, RenewedTicket)
          /\ Goto(t, "r_klist2")
          /\ UNCHANGED jobstate
       \/ /\ Raise(t)
          /\ Log(t, "kinit_R", "fail")
          /\ UNCHANGED <<ccache, others>>
       \/ /\ Raise(t)
          /\ Log(t, "kinit_R", "timeout")
          /\ UNCHANGED <<ccache, others>>

\* line 659: return await self.klist()
RenewKlist2(t) ==
    /\ At(t, "r_klist2")
    /\ UNCHANGED <<now, ccache, others, ds_enabled, kdc, kin, cred, units>>
    /\ \E o \in KlistOutcomes :
        IF o = "ok"
        THEN /\ ReturnRenew(t, ccache)
             /\ ev' = Event(t, "renewed_klist", "return", AfterRenew(t, ccache), 0,
                            th[t].launched, ccache)
             /\ UNCHANGED jobstate
        ELSE /\ Raise(t)
             /\ Log(t, "renewed_klist", o)

\* ----------------------------------------------------------------- stop
\* Mutant: the running job is looked up but not aborted.
StopJobs_noAbort(t) ==
    /\ At(t, "st_jobs")
    /\ UNCHANGED <<now, ccache, others, ds_enabled, kdc, jobstate, kin, cred, units>>
    /\ Goto(t, "st_kdestroy")
    /\ Log(t, "get_jobs", IF RunningJobs # {} THEN "abort" ELSE "none")

\* Mutant: the filter also matches jobs that are still WAITING.
StopJobs_abortWaiting(t) ==
    /\ At(t, "st_jobs")
    /\ UNCHANGED <<now, ccache, others, ds_enabled, kdc, kin, cred, units>>
    /\ LET renewal_job == LiveJobs IN
        IF renewal_job # {}
        THEN LET j == SetMin(renewal_job) IN
            /\ jobstate' = JobAbort(j)
            /\ th' = [th EXCEPT ![j] = DoneJobTh, ![t].pc = "st_kdestroy"]
            /\ ev' = Event(t, "get_jobs",
                           IF j \in RunningJobs THEN "abort" ELSE "none",
                           th[j].pc, j, 0, NoCache)
        ELSE
            /\ Goto(t, "st_kdestroy")
            /\ Log(t, "get_jobs", "none")
            /\ UNCHANGED jobstate

\* Mutant: the abort takes effect only on a job that is not sleeping.
StopJobs_notWhileSleeping(t) ==
    /\ At(t, "st_jobs")
    /\ UNCHANGED <<now, ccache, others, ds_enabled, kdc, kin, cred, units>>
    /\ LET renewal_job == RunningJobs IN
        IF renewal_job # {}
        THEN LET j == SetMin(renewal_job) IN
            /\ IF th[j].pc = "w_sleep"
               THEN /\ UNCHANGED jobstate
                    /\ Goto(t, "st_kdestroy")
               ELSE /\ jobstate' = JobAbort(j)
                    /\ th' = [th EXCEPT ![j] = DoneJobTh, ![t].pc = "st_kdestroy"]
            /\ ev' = [Event(t, "get_jobs", "abort", th[j].pc, j, 0, NoCache)
                         EXCEPT !.wake = th[j].wake]
        ELSE
            /\ Goto(t, "st_kdestroy")
            /\ Log(t, "get_jobs", "none")
            /\ UNCHANGED jobstate

\* lines 687-692: the RUNNING wait_for_renewal jobs; the first is aborted.
StopJobs(t) ==
    /\ At(t, "st_jobs")
    /\ UNCHANGED <<now, ccache, others, ds_enabled, kdc, kin, cred, units>>
    /\ LET renewal_job == RunningJobs IN
        IF renewal_job # {}
        THEN LET j == SetMin(renewal_job) IN
            /\ jobstate' = JobAbort(j)
            /\ th' = [th EXCEPT ![j] = DoneJobTh, ![t].pc = "st_kdestroy"]
            /\ ev' = [Event(t, "get_jobs", "abort", th[j].pc, j, 0, NoCache)
                         EXCEPT !.wake = th[j].wake]
        ELSE
            /\ Goto(t, "st_kdestroy")
            /\ Log(t, "get_jobs", "none")
            /\ UNCHANGED jobstate

\* kdestroy -c <ccache>: removes the cache file.  Destroying a cache that does
\* not exist is not a failure of the tool (exit 0); destroying an existing one
\* can fail.
KdestroyOutcomes == IF ccache.exists THEN {0, 1} ELSE {0}

\* lines 678-683 and 694-695: await self.kdestroy(); return
\* The run() of line 679 is under no timeout: a kdestroy that hangs on the
\* cache file keeps stop() suspended.
StopKdestroy(t) ==
    /\ At(t, "st_kdestroy")
    /\ UNCHANGED <<now, ds_enabled, kdc, jobstate, kin, cred, units>>
    /\ \/ \E rc \in KdestroyOutcomes :
            /\ th' = [th EXCEPT ![t] = IdleTh]
            /\ IF rc = 0
               THEN /\ DestroyCache(krb5ccache[kerberos_options.ccache])
                    /\ ev' = Event(t, "kdestroy", "return", "", 0, 0, ccache)
               ELSE /\ UNCHANGED <<ccache, others>>
                    /\ ev' = Event(t, "kdestroy", "fail", "", 0, 0, ccache)
       \/ /\ ccache.exists /\ Unbounded("kdestroy")
          /\ Goto(t, "hung")
          /\ ev' = Event(t, "kdestroy", "hang", "", 0, 0, ccache)
          /\ UNCHANGED <<ccache, others>>

\* ----------------------------------------------------- wait_for_renewal
\* The job queue runs the oldest waiting job once its lock is free.
JobRun(j) ==
    /\ j \in JobIds /\ jobstate[j] = "WAITING"
    /\ j = SetMin(QueuedJobs)
    /\ LockFree(wait_for_renewal_options)
    /\ jobstate' = [jobstate EXCEPT ![j] = "RUNNING"]
    /\ th' = [th EXCEPT ![j] = RunJobTh]
    /\ ev' = Event(j, "job_run", "", "", j, 0, NoCache)
    /\ UNCHANGED <<now, ccache, others, ds_enabled, kdc, kin, cred, units>>

\* line 715 (pc w_klist) and line 731 after the sleep (pc w_reklist):
\* klist = await self.klist(), then the loop's next turn.
WfrKlist(j) ==
    /\ j \in JobIds /\ (At(j, "w_klist") \/ At(j, "w_reklist"))
    /\ UNCHANGED <<now, ccache, others, ds_enabled, kdc, kin, cred, units>>
    /\ LET a == IF th[j].pc = "w_klist" THEN "wfr_klist" ELSE "wfr_reklist" IN
       \E o \in KlistOutcomes :
        IF o = "ok"
        THEN /\ WfrLoop(j, ccache)
             /\ ev' = Event(j, a, "ok", WfrTurn(ccache), 0, th[j].launched, ccache)
             /\ UNCHANGED jobstate
        ELSE /\ Raise(j)
             /\ Log(j, a, o)

\* line 730: await asyncio.sleep(KRB_TKT_CHECK_INTERVAL) is over.
WfrWake(j) ==
    /\ j \in JobIds /\ At(j, "w_sleep")
    /\ now >= th[j].wake
    /\ th' = [th EXCEPT ![j].pc = "w_reklist", ![j].wake = 0]
    /\ ev' = [Event(j, "wake", "", "", 0, th[j].launched, NoCache)
                 EXCEPT !.wake = th[j].wake]
    /\ UNCHANGED <<now, ccache, others, ds_enabled, kdc, jobstate, kin, cred, units>>

\* ----------------------------------------------------------------- time
Tick ==
    /\ \E dt \in TickSet : now + dt <= MaxTime /\ now' = now + dt
    /\ ev' = [NoEvent EXCEPT !.a = "tick"]
    /\ UNCHANGED <<ccache, others, ds_enabled, kdc, jobstate, th, kin, cred, units>>

Next ==
    \/ \E c \in Callers : CallStart(c) \/ CallStop(c) \/ CallRenew(c) \/ CallStatus(c)
    \/ \E t \in Threads :
        \/ StartKinit(t) \/ StartWfr(t) \/ StartKlist(t)
        \/ RenewTest(t) \/ RenewKlist(t) \/ RenewKinitR(t) \/ RenewKlist2(t)
        \/ StopJobs(t) \/ StopKdestroy(t) \/ StatusTest(t)
    \/ \E j \in JobIds : JobRun(j) \/ WfrKlist(j) \/ WfrWake(j)
    \/ Tick

Spec == Init /\ [][Next]_vars

\* The same service beside caches of other selectors, none or all of which
\* exist beforehand, with a directory service enabled and a KDC granting
\* renewable tickets of the longest lifetime.
InitCache ==
    /\ now = 0
    /\ ccache = NoCache
    /\ ds_enabled = TRUE
    /\ kdc \in {k \in KdcPolicies :
                    /\ k.renewable /\ k.life = SetMax(Lifetimes)
                    /\ k.renew_life = SetMax(RenewLifetimes)}
    /\ jobstate = [j \in JobIds |-> "NONE"]
    /\ th = [t \in Threads |-> IF t \in Callers THEN IdleTh ELSE NewJobTh]
    /\ ev = NoEvent
    /\ others \in {[p \in OtherPaths |-> v] : v \in {"absent", "present"}}
    /\ kin = NoCall
    /\ cred = NoCall
    /\ kt = NoCall
    /\ pk = NoCall
    /\ dns = NoCall

SpecCache == InitCache /\ [][Next]_vars

TypeOK ==
    /\ now \in 0..MaxTime
    /\ ds_enabled \in BOOLEAN
    /\ \A j \in JobIds : jobstate[j] \in {"NONE", "WAITING", "RUNNING", "ABORTED", "FAILED"}
    /\ \A t \in Threads : th[t].launched >= 0

\* ============================================================== do_kinit
\* KerberosService.do_kinit (lines 425-486) on its own: one call, its
\* arguments drawn from the sets below, run to its return or its CallError,
\* and after its return the klist and the kdestroy of the same cache selector.
\* The service's own variables stay as they are at rest.
service == <<now, ds_enabled, kdc, jobstate, th, ev>>

\* Python's None.
None == "<None>"

Passwords == {"pw-one", "pw-two"}

\* krb5_cred: a keytab principal or a username with its password (398-412).
Krb5Creds ==
    {[kerberos_principal |-> "host/nas@EXAMPLE.COM"]}
    \cup {[username |-> "svc@EXAMPLE.COM", password |-> pw] : pw \in Passwords}

\* lines 413-423: 'kinit-options' is 'kerberos-options' with renewal_period
\* (default 7), lifetime (default 0, or ten hours in minutes) and kdc_override
\* (domain and kdc default to None).
KinitOptions ==
    {[ccache |-> c, ccache_uid |-> u, renewal_period |-> 7, lifetime |-> l,
      kdc_override |-> o] :
        c \in DOMAIN krb5ccache, u \in Uids, l \in {0, 600},
        o \in {[domain |-> None, kdc |-> None],
               [domain |-> None, kdc |-> "kdc.example.com"],
               [domain |-> "EXAMPLE.COM", kdc |-> "kdc.example.com"]}}

\* stderr of a kinit that exits non-zero.
Diagnostics == {"kinit: Preauthentication failed", "kinit: Cannot contact any KDC"}

\* /etc/krb5.conf before the call.
ConfStates == {"absent", "existing"}

\* A do_kinit call entered with data; no effect yet.
KinCall(data, conf) ==
    [pc |-> "call", data |-> data, cmd |-> <<>>, procs |-> <<>>, stdin |-> "",
     err |-> <<>>, conf |-> conf, conf0 |-> conf, regen |-> FALSE, chown |-> FALSE,
     inspected |-> "", destroyed |-> ""]

\* line 428
has_principal(creds) == "kerberos_principal" \in DOMAIN creds

\* Mutant: the uid-0 check of lines 439-440 left out.
DoKinitRejection_noUidCheck(data) ==
    IF data.kinit_options.ccache = "USER" /\ has_principal(data.krb5_cred)
    THEN "User-specific ccache not permitted with keytab-based kinit"
    ELSE ""

\* lines 435-440: the CallError for a USER cache selector, "" when none.
DoKinitRejection(data) ==
    IF data.kinit_options.ccache = "USER"
    THEN IF has_principal(data.krb5_cred)
         THEN "User-specific ccache not permitted with keytab-based kinit"
         ELSE IF data.kinit_options.ccache_uid = 0
              THEN "User-specific ccache not permitted for uid 0"
              ELSE ""
    ELSE ""

\* lines 442-447: the command line up to the options.
KinitCmd(opts) ==
    <<"kinit", "-V", "-r", ToString(opts.renewal_period), "-c",
      ccache_path([ccache |-> opts.ccache, ccache_uid |-> opts.ccache_uid])>>
    \o (IF opts.lifetime # 0
        THEN <<"-l", ToString(opts.lifetime) \o "m">>
        ELSE <<>>)

\* Mutant: the password is passed on the command line.
KinitArgv_withPassword(data) ==
    KinitCmd(data.kinit_options)
    \o (IF has_principal(data.krb5_cred)
        THEN <<"-k", data.krb5_cred.kerberos_principal>>
        ELSE <<data.krb5_cred.username, data.krb5_cred.password>>)

\* lines 467 and 474: the argument list of the kinit process.
KinitArgv(data) ==
    KinitCmd(data.kinit_options)
    \o (IF has_principal(data.krb5_cred)
        THEN <<"-k", data.krb5_cred.kerberos_principal>>
        ELSE <<data.krb5_cred.username>>)

\* lines 470-471 and 481: the CallError of a failed kinit, as the parts the
\* message is formatted from; diag is the tool's stderr.
KinitError(data, diag) ==
    IF has_principal(data.krb5_cred)
    THEN <<"kinit with principal [", data.krb5_cred.kerberos_principal,
           "] failed: ", diag>>
    ELSE <<"kinit with password failed: ", diag>>

\* line 479: what is written to the stdin of the kinit process.
KinitStdin(data) ==
    IF has_principal(data.krb5_cred) THEN "" ELSE data.krb5_cred.password

\* Mutant: the stub is written whatever is there.
generate_stub_config_always(conf) == "stub"

\* lines 200-227: generate_stub_config writes /etc/krb5.conf only when the
\* file does not exist.
generate_stub_config(conf) ==
    IF conf # "absent" THEN conf ELSE "stub"

InitKinit ==
    /\ now = 0
    /\ ccache = NoCache
    /\ ds_enabled = TRUE
    /\ kdc \in {k \in KdcPolicies :
                    /\ k.renewable /\ k.life = SetMax(Lifetimes)
                    /\ k.renew_life = SetMax(RenewLifetimes)}
    /\ jobstate = [j \in JobIds |-> "NONE"]
    /\ th = [t \in Threads |-> IF t \in Callers THEN IdleTh ELSE NewJobTh]
    /\ ev = NoEvent
    /\ others = [p \in OtherPaths |-> "absent"]
    /\ cred = NoCall
    /\ kt = NoCall
    /\ pk = NoCall
    /\ dns = NoCall
    /\ \E c \in Krb5Creds, o \in KinitOptions, f \in ConfStates :
          kin = KinCall([krb5_cred |-> c, kinit_options |-> o], f)

\* lines 426-447: the cache selector is checked, then the command is built.
DoKinitCheck ==
    /\ kin.pc = "call"
    /\ LET e == DoKinitRejection(kin.data) IN
        IF e # ""
        THEN kin' = [kin EXCEPT !.pc = "raised", !.err = <<e>>]
        ELSE kin' = [kin EXCEPT !.pc = "override",
                                !.cmd = KinitCmd(kin.data.kinit_options)]
    /\ UNCHANGED <<service, ccache, others, cred, units>>

\* lines 449-457: the KDC override.
DoKinitOverride ==
    /\ kin.pc = "override"
    /\ LET override == kin.data.kinit_options.kdc_override
           next == IF has_principal(kin.data.krb5_cred) THEN "principals" ELSE "popen"
       IN
        IF override.kdc # None
        THEN IF override.domain = None
             THEN kin' = [kin EXCEPT !.pc = "raised",
                                     !.err = <<"Domain missing from KDC override">>]
             ELSE kin' = [kin EXCEPT !.pc = next,
                                     !.conf = generate_stub_config(kin.conf)]
        ELSE kin' = [kin EXCEPT !.pc = next]
    /\ UNCHANGED <<service, ccache, others, cred, units>>

\* lines 460-465: a principal missing from the keytab has etc.generate
\* rewrite the kerberos files.
DoKinitPrincipals ==
    /\ kin.pc = "principals"
    /\ \E in_keytab \in BOOLEAN :
          kin' = [kin EXCEPT !.pc = "run", !.regen = ~in_keytab]
    /\ UNCHANGED <<service, ccache, others, cred, units>>

\* The kinit process has run with argument list argv: exit 0 with the ticket
\* in the cache of -c, or non-zero with a diagnostic on stderr.
KinitRun(argv) ==
    \/ /\ kin' = [kin EXCEPT !.pc = "returned", !.cmd = argv,
                             !.procs = Append(@, argv),
                             !.stdin = KinitStdin(kin.data),
                             !.chown = /\ ~has_principal(kin.data.krb5_cred)
                                       /\ kin.data.kinit_options.ccache = "USER"]
       /\ WriteCache(argv[6], KinitTicket)
    \/ /\ \E diag \in Diagnostics :
            kin' = [kin EXCEPT !.pc = "raised", !.cmd = argv,
                               !.procs = Append(@, argv),
                               !.stdin = KinitStdin(kin.data),
                               !.err = KinitError(kin.data, diag)]
       /\ UNCHANGED <<ccache, others>>

\* lines 467-472: kinit -k <principal> under run().
DoKinitKeytab ==
    /\ kin.pc = "run"
    /\ KinitRun(KinitArgv(kin.data))
    /\ UNCHANGED <<service, cred, units>>

\* lines 474-486: kinit <username> under Popen, the password on its stdin,
\* then the chown of a USER cache.
DoKinitPassword ==
    /\ kin.pc = "popen"
    /\ KinitRun(KinitArgv(kin.data))
    /\ UNCHANGED <<service, cred, units>>

\* line 602: the cache klist -ef is run on.
KlistPath(data) == krb5ccache[data.ccache]

\* line 679: the cache kdestroy -c is run on.
KdestroyPath(data) == krb5ccache[data.ccache]

\* The cache file at path is there.
CacheHolds(path) ==
    IF path = krb5ccache.SYSTEM THEN ccache.exists ELSE others[path] # "absent"

\* lines 601-615: klist with the selector of the do_kinit that returned; a
\* cache that is not there makes klist exit non-zero and the call raise.
KinKlist ==
    /\ kin.pc = "returned"
    /\ LET path == KlistPath(kin.data.kinit_options) IN
       kin' = [kin EXCEPT !.inspected = path,
                          !.pc = IF CacheHolds(path) THEN "listed"
                                 ELSE "klist_raised"]
    /\ UNCHANGED <<service, ccache, others, cred, units>>

\* lines 676-683: kdestroy with the same selector; a cache that is not there
\* makes kdestroy exit non-zero and the call raise.
KinKdestroy ==
    /\ kin.pc \in {"returned", "listed", "klist_raised"}
    /\ LET path == KdestroyPath(kin.data.kinit_options) IN
       IF CacheHolds(path)
       THEN /\ kin' = [kin EXCEPT !.destroyed = path, !.pc = "destroyed"]
            /\ DestroyCache(path)
       ELSE /\ kin' = [kin EXCEPT !.destroyed = path, !.pc = "kdestroy_raised"]
            /\ UNCHANGED <<ccache, others>>
    /\ UNCHANGED <<service, cred, units>>

NextKinit ==
    \/ DoKinitCheck
    \/ DoKinitOverride
    \/ DoKinitPrincipals
    \/ DoKinitKeytab
    \/ DoKinitPassword
    \/ KinKlist
    \/ KinKdestroy

SpecKinit == InitKinit /\ [][NextKinit]_vars

\* ============================================================== get_cred
\* KerberosService.get_cred (lines 359-394) on its own: one call on a
\* configuration drawn from the sets below.  A string the code takes apart or
\* converts is a sequence of characters.
DsTypes == {"DS_TYPE_ACTIVEDIRECTORY", "DS_TYPE_LDAP"}

ConfKeys ==
    {"kerberos_principal", "bindname", "bindpw", "domainname", "binddn",
     "kerberos_realm"}

\* The value a configuration carries for key k when the key is set.
ConfValue(k) ==
    CASE k = "kerberos_principal" -> <<"h", "o", "s", "t", "/", "n", "a", "s", "@", "E", "X", "A", "M", "P", "L", "E", ".", "C", "O", "M">>
      [] k = "bindname" -> <<"s", "v", "c">>
      [] k = "bindpw" -> <<"s", "e", "c", "r", "e", "t">>
      [] k = "domainname" -> <<"e", "x", "a", "m", "p", "l", "e", ".", "c", "o", "m">>
      [] k = "binddn" -> <<"c", "n", "=", "a", "d", "m", "i", "n", ",", "d", "c", "=", "e", "x", "a", "m", "p", "l", "e", ",", "d", "c", "=", "c", "o", "m">>
      [] k = "kerberos_realm" -> 1

\* Further values of a key: a bind DN whose first value holds an '=', one
\* whose first value holds an escaped comma, one that is no DN at all; a
\* domain name in mixed case; the id of a realm record that does not exist.
ConfAlt(k, c) ==
    CASE k = "binddn" /\ c = "alt1" -> <<"u", "i", "d", "=", "a", "=", "b", ",", "d", "c", "=", "e", "x", "a", "m", "p", "l", "e", ",", "d", "c", "=", "c", "o", "m">>
      [] k = "binddn" /\ c = "alt2" -> <<"c", "n", "=", "s", "m", "i", "t", "h", "\\", ",", " ", "j", ",", "d", "c", "=", "e", "x", "a", "m", "p", "l", "e", ",", "d", "c", "=", "c", "o", "m">>
      [] k = "binddn" /\ c = "alt3" -> <<"a", "d", "m", "i", "n">>
      [] k = "domainname" /\ c = "alt1" -> <<"A", "d", ".", "E", "x", "a", "m", "p", "l", "e", ".", "c", "o", "m">>
      [] k = "kerberos_realm" /\ c = "alt1" -> 2

\* The ways key k can occur in a configuration.
ConfChoices(k) ==
    {"absent", "empty", "set"}
    \cup (IF k = "binddn" THEN {"alt1", "alt2", "alt3"}
          ELSE IF k \in {"domainname", "kerberos_realm"} THEN {"alt1"}
          ELSE {})

\* The empty value of key k: '' for a Str, 0 for the Int kerberos_realm.
ConfEmpty(k) == IF k = "kerberos_realm" THEN 0 ELSE <<>>

\* The conf dict in which every key is absent, empty or set as ch says.
Conf(ch) ==
    [k \in {x \in ConfKeys : ch[x] # "absent"} |->
        IF ch[k] = "empty" THEN ConfEmpty(k)
        ELSE IF ch[k] = "set" THEN ConfValue(k)
        ELSE ConfAlt(k, ch[k])]

\* conf.get(k) is truthy: the key is present with a non-empty value.
Truthy(conf, k) == k \in DOMAIN conf /\ conf[k] # ConfEmpty(k)

\* kerberos.realm.query: the realm records by id.
Realms == [id \in {1} |-> <<"E", "X", "A", "M", "P", "L", "E", ".", "C", "O", "M">>]

\* str.upper() on ASCII letters.
UpperTable ==
    [a |-> "A", b |-> "B", c |-> "C", d |-> "D", e |-> "E", f |-> "F", g
     |-> "G", h |-> "H", i |-> "I", j |-> "J", k |-> "K", l |-> "L", m |->
     "M", n |-> "N", o |-> "O", p |-> "P", q |-> "Q", r |-> "R", s |-> "S",
     t |-> "T", u |-> "U", v |-> "V", w |-> "W", x |-> "X", y |-> "Y", z
     |-> "Z"]

\* Mutant: the domain name used as it is.
Upper_unchanged(str) == str

Upper(str) ==
    [i \in 1..Len(str) |->
        IF str[i] \in DOMAIN UpperTable THEN UpperTable[str[i]] ELSE str[i]]

\* str.split(sep): the pieces of str between the occurrences of sep.
RECURSIVE Split(_, _)
Split(str, sep) ==
    IF \E i \in 1..Len(str) : str[i] = sep
    THEN LET i == CHOOSE x \in 1..Len(str) :
                    str[x] = sep /\ \A y \in 1..(x - 1) : str[y] # sep
         IN <<SubSeq(str, 1, i - 1)>> \o Split(SubSeq(str, i + 1, Len(str)), sep)
    ELSE <<str>>

\* Mutant: an explicit principal is honoured for Active Directory only.
UsesPrincipal_onlyAD(data) ==
    /\ data.dstype = "DS_TYPE_ACTIVEDIRECTORY"
    /\ Truthy(data.conf, "kerberos_principal")

\* line 364: if conf.get('kerberos_principal')
UsesPrincipal(data) == Truthy(data.conf, "kerberos_principal")

\* lines 369-370 and 380: the fields the directory-service type requires.
RequiredFields(dstype) ==
    IF dstype = "DS_TYPE_ACTIVEDIRECTORY"
    THEN <<"bindname", "bindpw", "domainname">>
    ELSE <<"binddn", "bindpw", "kerberos_realm">>

\* Mutant: verrors.check() inside the loop: the first missing field raises.
MissingFields_firstOnly(data) ==
    LET missing == SelectSeq(RequiredFields(data.dstype),
                             LAMBDA k : ~Truthy(data.conf, k))
    IN IF missing = <<>> THEN <<>> ELSE <<"conf." \o missing[1]>>

\* lines 370-372 and 380-382: verrors after the loop, one entry
\* ('conf.<field>', 'Parameter is required.') per field that is not truthy.
MissingFields(data) ==
    LET missing == SelectSeq(RequiredFields(data.dstype),
                             LAMBDA k : ~Truthy(data.conf, k))
    IN [i \in 1..Len(missing) |-> "conf." \o missing[i]]

\* A get_cred call entered with data; nothing done yet.
CredCall(data) ==
    [pc |-> "call", data |-> data, result |-> <<>>, verrors |-> <<>>,
     err |-> "", lookups |-> 0]

InitCred ==
    /\ now = 0
    /\ ccache = NoCache
    /\ ds_enabled = TRUE
    /\ kdc \in {k \in KdcPolicies :
                    /\ k.renewable /\ k.life = SetMax(Lifetimes)
                    /\ k.renew_life = SetMax(RenewLifetimes)}
    /\ jobstate = [j \in JobIds |-> "NONE"]
    /\ th = [t \in Threads |-> IF t \in Callers THEN IdleTh ELSE NewJobTh]
    /\ ev = NoEvent
    /\ others = [p \in OtherPaths |-> "absent"]
    /\ kin = NoCall
    /\ kt = NoCall
    /\ pk = NoCall
    /\ dns = NoCall
    /\ \E ds \in DsTypes, ch \in [ConfKeys -> UNION {ConfChoices(k) : k \in ConfKeys}] :
          /\ \A k \in ConfKeys : ch[k] \in ConfChoices(k)
          /\ cred = CredCall([dstype |-> ds, conf |-> Conf(ch)])

\* lines 363-384: the principal, or the validation of the required fields
\* and, for Active Directory, the credentials.
GetCredResolve ==
    /\ cred.pc = "call"
    /\ LET data == cred.data
           conf == data.conf
       IN
        IF UsesPrincipal(data)
        THEN cred' = [cred EXCEPT
                        !.pc = "returned",
                        !.result = [kerberos_principal |-> conf.kerberos_principal]]
        ELSE IF MissingFields(data) # <<>>
        THEN cred' = [cred EXCEPT !.pc = "raised", !.err = "ValidationErrors",
                                  !.verrors = MissingFields(data)]
        ELSE IF data.dstype = "DS_TYPE_ACTIVEDIRECTORY"
        THEN cred' = [cred EXCEPT
                        !.pc = "returned",
                        !.result = [username |-> conf.bindname \o <<"@">>
                                                    \o Upper(conf.domainname),
                                    password |-> conf.bindpw]]
        ELSE cred' = [cred EXCEPT !.pc = "query"]
    /\ UNCHANGED <<service, ccache, others, kin, units>>

\* lines 385-394: the realm record is fetched ({'get': True} raises when
\* there is none) and the username is built from the bind DN.
GetCredRealm ==
    /\ cred.pc = "query"
    /\ LET conf == cred.data.conf
           bind_cn == Split(Split(conf.binddn, ",")[1], "=")
       IN
        IF conf.kerberos_realm \notin DOMAIN Realms
        THEN cred' = [cred EXCEPT !.pc = "raised", !.err = "MatchNotFound",
                                  !.lookups = @ + 1]
        ELSE IF Len(bind_cn) < 2
        THEN cred' = [cred EXCEPT !.pc = "raised", !.err = "IndexError",
                                  !.lookups = @ + 1]
        ELSE cred' = [cred EXCEPT
                        !.pc = "returned",
                        !.lookups = @ + 1,
                        !.result = [username |-> bind_cn[2] \o <<"@">>
                                                    \o Realms[conf.kerberos_realm],
                                    password |-> conf.bindpw]]
    /\ UNCHANGED <<service, ccache, others, kin, units>>

NextCred == GetCredResolve \/ GetCredRealm

SpecCred == InitCred /\ [][NextCred]_vars

\* ======================================================= keytab reconciler
\* KerberosKeytabService.check_updated_keytab (lines 1223-1261) and the
\* store_samba_keytab it calls (lines 1179-1221), one cycle after the other.
\* Samba rewrites the system keytab between two cycles and in the middle of
\* one, up to the copy; the file can be missing when the cycle looks for it
\* (line 1236) and is there for the rest of the cycle.  A keytab file is the
\* sequence of its entries (its bytes are never empty: ktutil writes a
\* header); the entry's encryption type and date play no part.
MaxMtime == 2
MaxEntries == 2

\* lines 21-23: the keytab files.
keytab == [SYSTEM |-> "/etc/krb5.keytab",
           SAMBA |-> "/var/db/system/samba4/private/samba.keytab"]

\* activedirectory.config: the netbios name of the machine account.
netbiosname == "NAS"

Principals == {"NAS$@EXAMPLE.COM", "host/nas.example.com@EXAMPLE.COM",
               "nfs/files.example.com@EXAMPLE.COM"}

\* The principals of the machine account's netbios-name family.
MachineFamily == {"NAS$@EXAMPLE.COM", "host/nas.example.com@EXAMPLE.COM"}

KeytabEntries == [principal : Principals, kvno : {2}]

\* The contents a keytab file can have.
Keytabs == UNION {[1..n -> KeytabEntries] : n \in 0..MaxEntries}

\* A keytab record of the datastore.
Record(id, name, file) == [id |-> id, name |-> name, file |-> file]

\* line 1200: what base64.b64encode makes of the bytes of a keytab file.
b64encode(entries) == [b64 |-> entries]

\* The keytab records the administrator manages.
UserRecords == <<Record(1, "NFS_KEYTAB",
                        b64encode(<<[principal |-> "nfs/files.example.com@EXAMPLE.COM",
                                     kvno |-> 2]>>))>>

\* The keytab records before the first cycle: with or without the record of
\* the machine account.
Stores == {UserRecords,
           UserRecords \o <<Record(2, "AD_MACHINE_ACCOUNT", b64encode(<<>>))>>}

\* activedirectory.get_state: the states of the directory service.
AdStates == {"DISABLED", "FAULTED", "HEALTHY"}

\* What a cycle finds when it starts: system.ready, activedirectory.get_state,
\* os.path.exists of the system keytab, and the two timestamps of
\* directoryservices.get_last_password_change.
CycleInputs ==
    [ready : BOOLEAN, ad_state : AdStates, exists : BOOLEAN,
     ts : [dbconfig : {1}, secrets : {1, 2}]]

\* The reconciler between two cycles.
KtIdle(sys, store, cache) ==
    [pc |-> "idle", sys |-> sys, mtime |-> 1, cache |-> cache,
     samba |-> <<>>, samba_exists |-> FALSE,
     keytab_list |-> <<>>, to_delete |-> <<>>,
     store |-> store, store0 |-> store,
     last |-> "none", err |-> "", listing |-> "none", stored |-> FALSE,
     why |-> "", backup |-> FALSE]

\* Mutant: the comparison of the mtimes left out.
CheckDecision_ignoresMtime(in, old_mtime, new_mtime) ==
    IF ~in.ready THEN "not_ready"
    ELSE IF in.ad_state = "DISABLED" \/ ~in.exists THEN "no_keytab"
    ELSE IF in.ts.dbconfig = in.ts.secrets THEN "same_password"
    ELSE "reconcile"

\* Mutant: the comparison of the password-change timestamps left out.
CheckDecision_ignoresTimestamps(in, old_mtime, new_mtime) ==
    IF ~in.ready THEN "not_ready"
    ELSE IF in.ad_state = "DISABLED" \/ ~in.exists THEN "no_keytab"
    ELSE IF old_mtime = new_mtime THEN "same_mtime"
    ELSE "reconcile"

\* lines 1231-1248: the returns of check_updated_keytab, in their order.
CheckDecision(in, old_mtime, new_mtime) ==
    IF ~in.ready THEN "not_ready"
    ELSE IF in.ad_state = "DISABLED" \/ ~in.exists THEN "no_keytab"
    ELSE IF old_mtime = new_mtime THEN "same_mtime"
    ELSE IF in.ts.dbconfig = in.ts.secrets THEN "same_password"
    ELSE "reconcile"

\* lines 1003-1010: klist -tek prints three header lines and one line for
\* every entry: kvno, date, time, principal, (etype).
do_ktutil_list(sys) ==
    LET ret == <<"Keytab name:", "KVNO Timestamp Principal", "----">>
                 \o [i \in 1..Len(sys) |->
                       <<sys[i].kvno, "01/01/24", "00:00:00", sys[i].principal,
                         "(aes256-cts-hmac-sha1-96)">>]
    IN IF Len(ret) < 4 THEN <<>> ELSE SubSeq(ret, 4, Len(ret))

\* lines 1039-1062: the entries of the listing, numbered from 1; a listing
\* that failed is logged and gives no entries.
_ktutil_list(sys, listing) ==
    LET kt_list_output == IF listing = "ok" THEN do_ktutil_list(sys) ELSE <<>>
    IN [idx \in 1..Len(kt_list_output) |->
           [slot |-> idx, kvno |-> kt_list_output[idx][1],
            principal |-> kt_list_output[idx][4]]]

\* lines 1092-1097: the listed entries whose principal is not of the
\* machine account (filter_list with 'Crnin' on the netbios name).
_get_nonsamba_principals(keytab_list) ==
    SelectSeq(keytab_list, LAMBDA e : e.principal \notin MachineFamily)

\* Mutant: the batch in the order of the listing.
Reversed_ascending(q) == q

\* line 1127: reversed(to_delete).
Reversed(q) == [i \in 1..Len(q) |-> q[Len(q) + 1 - i]]

\* ktutil's delent: the entry of a slot leaves the list and the slots after it
\* move up.
Delent(entries, slot) ==
    [i \in 1..(Len(entries) - 1) |-> IF i < slot THEN entries[i] ELSE entries[i + 1]]

\* line 1127: the delent commands, in the order ktutil gets them.
RECURSIVE Delents(_, _)
Delents(entries, slots) ==
    IF slots = <<>> THEN entries
    ELSE Delents(Delent(entries, Head(slots)), Tail(slots))

\* Some delent names a slot the list it is applied to does not have.
RECURSIVE BadSlot(_, _)
BadSlot(n, slots) ==
    /\ slots # <<>>
    /\ \/ Head(slots) > n
       \/ BadSlot(n - 1, Tail(slots))

\* Mutant: a new record whatever the query found.
Upsert_alwaysInsert(store, keytab_file) ==
    Append(store, Record(SetMax({store[i].id : i \in 1..Len(store)} \cup {0}) + 1,
                         "AD_MACHINE_ACCOUNT", keytab_file))

\* lines 1207-1219: the record named AD_MACHINE_ACCOUNT is inserted when the
\* query finds none, and the first one found is updated otherwise.
Upsert(store, keytab_file) ==
    LET entry == SelectSeq(store, LAMBDA r : r.name = "AD_MACHINE_ACCOUNT")
    IN IF entry = <<>>
       THEN Append(store, Record(SetMax({store[i].id : i \in 1..Len(store)} \cup {0}) + 1,
                                 "AD_MACHINE_ACCOUNT", keytab_file))
       ELSE [i \in 1..Len(store) |->
               IF store[i].id = entry[1].id
               THEN Record(store[i].id, "AD_MACHINE_ACCOUNT", keytab_file)
               ELSE store[i]]

InitKeytab ==
    /\ now = 0
    /\ ccache = NoCache
    /\ ds_enabled = TRUE
    /\ kdc \in {k \in KdcPolicies :
                    /\ k.renewable /\ k.life = SetMax(Lifetimes)
                    /\ k.renew_life = SetMax(RenewLifetimes)}
    /\ jobstate = [j \in JobIds |-> "NONE"]
    /\ th = [t \in Threads |-> IF t \in Callers THEN IdleTh ELSE NewJobTh]
    /\ ev = NoEvent
    /\ others = [p \in OtherPaths |-> "absent"]
    /\ kin = NoCall
    /\ cred = NoCall
    /\ pk = NoCall
    /\ dns = NoCall
    /\ \E sys \in Keytabs, store \in Stores :
          kt = KtIdle(sys, store, 0)

\* The cycle of kt ends, returned (an early return included) or raised, and
\* its locals are gone.  The working copy it leaves behind is never read
\* again (lines 1103-1104 remove it before the next copy): its contents are
\* forgotten here.
KtEnd(k, last, err) ==
    [k EXCEPT !.pc = "idle", !.last = last, !.err = err,
              !.keytab_list = <<>>, !.to_delete = <<>>, !.samba = <<>>]

\* Samba rewrites the system keytab.
SambaUpdate ==
    /\ kt.pc \in {"idle", "list", "copy"} /\ kt.mtime < MaxMtime
    /\ \E sys \in Keytabs :
          kt' = [kt EXCEPT !.sys = sys, !.mtime = @ + 1]
    /\ UNCHANGED <<service, ccache, others, kin, cred, pk, dns>>

\* lines 1231-1248: the periodic call starts a cycle; it returns at once
\* unless the system is ready, Active Directory is not disabled, the keytab
\* is there, its mtime differs from the cached one and the two timestamps
\* of the machine account password differ.
CheckUpdatedKeytab ==
    /\ kt.pc = "idle"
    /\ \E in \in CycleInputs :
          LET old_mtime == kt.cache
              new_mtime == kt.mtime
              decision == CheckDecision(in, old_mtime, new_mtime)
              k == [kt EXCEPT !.stored = FALSE, !.listing = "none",
                              !.backup = FALSE, !.why = decision]
          IN IF decision # "reconcile"
             THEN kt' = KtEnd(k, "returned", "")
             ELSE kt' = [k EXCEPT !.pc = "backup"]
    /\ UNCHANGED <<service, ccache, others, kin, cred, pk, dns>>

\* line 1254: directoryservices.secrets.backup is awaited before
\* store_samba_keytab is entered; the call succeeds or raises.
SecretsBackup ==
    /\ kt.pc = "backup"
    /\ \/ kt' = [kt EXCEPT !.pc = "list", !.backup = TRUE]
       \/ kt' = KtEnd(kt, "raised", "backup")
    /\ UNCHANGED <<service, ccache, others, kin, cred, pk, dns>>

\* lines 1195-1196: the keytab is listed, the listing succeeding or not, and
\* the entries to remove are picked.
StoreList ==
    /\ kt.pc = "list"
    /\ \E listing \in {"ok", "failed"} :
          LET keytab_list == _ktutil_list(kt.sys, listing) IN
          kt' = [kt EXCEPT !.pc = "copy", !.listing = listing,
                           !.keytab_list = keytab_list,
                           !.to_delete = _get_nonsamba_principals(keytab_list)]
    /\ UNCHANGED <<service, ccache, others, kin, cred, pk, dns>>

\* lines 1100-1116: the old copy is removed and ktutil copies the system
\* keytab; anything on its stderr raises CallError.
GenerateTmpKeytab ==
    /\ kt.pc = "copy"
    /\ \/ kt' = [kt EXCEPT !.pc = "prune", !.samba = kt.sys, !.samba_exists = TRUE]
       \/ kt' = [KtEnd(kt, "raised", "failed to generate")
                    EXCEPT !.samba = <<>>, !.samba_exists = FALSE]
    /\ UNCHANGED <<service, ccache, others, kin, cred, pk, dns>>

\* lines 1119-1141: ktutil deletes the slots of to_delete from the copy, the
\* last one first, and the result takes the place of the copy; anything on its
\* stderr raises CallError.
PruneKeytabPrincipals ==
    /\ kt.pc = "prune"
    /\ LET slots == [i \in 1..Len(kt.to_delete) |-> Reversed(kt.to_delete)[i].slot] IN
       \/ /\ ~BadSlot(Len(kt.samba), slots)
          /\ kt' = [kt EXCEPT !.pc = "upsert", !.samba = Delents(kt.samba, slots)]
       \/ kt' = KtEnd(kt, "raised", "ktutil")
    /\ UNCHANGED <<service, ccache, others, kin, cred, pk, dns>>

\* lines 1199-1221: the pruned copy is encoded and stored in the record
\* AD_MACHINE_ACCOUNT; the datastore can fail.
StoreUpsert ==
    /\ kt.pc = "upsert"
    /\ LET keytab_file == b64encode(kt.samba) IN
       \/ kt' = [kt EXCEPT !.pc = "put", !.store = Upsert(kt.store, keytab_file),
                           !.stored = TRUE]
       \/ kt' = KtEnd(kt, "raised", "datastore")
    /\ UNCHANGED <<service, ccache, others, kin, cred, pk, dns>>

\* Mutant: the marker left as it was.
MarkerAtPut_keeps(k) == k.cache

\* line 1260: the marker is the mtime os.stat gives when the cycle ends.
MarkerAtPut(k) == k.mtime

\* lines 1256-1261: the mtime of the keytab is cached.
CachePut ==
    /\ kt.pc = "put"
    /\ kt' = [KtEnd(kt, "returned", "") EXCEPT !.cache = MarkerAtPut(kt)]
    /\ UNCHANGED <<service, ccache, others, kin, cred, pk, dns>>

NextKeytab ==
    \/ SambaUpdate
    \/ CheckUpdatedKeytab
    \/ SecretsBackup
    \/ StoreList
    \/ GenerateTmpKeytab
    \/ PruneKeytabPrincipals
    \/ StoreUpsert
    \/ CachePut

SpecKeytab == InitKeytab /\ [][NextKeytab]_vars

\* ------------------------------------------------- one batch of deletions
\* store_samba_keytab from its listing to the pruned copy (lines 1195-1198)
\* on keytabs of up to MaxSlots entries that nobody rewrites meanwhile; the
\* key version of an entry is its place in the file, so that no two entries
\* of a keytab are the same.
MaxSlots == 4

PruneKeytabs ==
    UNION {{[i \in 1..n |-> [principal |-> f[i], kvno |-> i]] :
                f \in [1..n -> Principals]} : n \in 0..MaxSlots}

InitPrune ==
    /\ now = 0
    /\ ccache = NoCache
    /\ ds_enabled = TRUE
    /\ kdc \in {k \in KdcPolicies :
                    /\ k.renewable /\ k.life = SetMax(Lifetimes)
                    /\ k.renew_life = SetMax(RenewLifetimes)}
    /\ jobstate = [j \in JobIds |-> "NONE"]
    /\ th = [t \in Threads |-> IF t \in Callers THEN IdleTh ELSE NewJobTh]
    /\ ev = NoEvent
    /\ others = [p \in OtherPaths |-> "absent"]
    /\ kin = NoCall
    /\ cred = NoCall
    /\ pk = NoCall
    /\ dns = NoCall
    /\ \E sys \in PruneKeytabs :
          kt = [KtIdle(sys, UserRecords, 0) EXCEPT
                   !.pc = "list", !.why = "reconcile", !.backup = TRUE]

NextPrune ==
    \/ StoreList
    \/ GenerateTmpKeytab
    \/ PruneKeytabPrincipals

SpecPrune == InitPrune /\ [][NextPrune]_vars

\* ------------------------------------------------- deleting a keytab record
\* KerberosKeytabService.do_delete (lines 940-963) on its own: one call on a
\* store that holds the administrator's record and perhaps the record of the
\* machine account, with an id that may name no record.
DeleteStores ==
    {UserRecords}
    \cup {UserRecords \o <<Record(2, "AD_MACHINE_ACCOUNT", b64encode(k))>> :
              k \in Keytabs}

\* A do_delete call entered with id_; no effect yet.
DeleteCall(store, id_, ad_state) ==
    [pc |-> "call", store |-> store, store0 |-> store, id |-> id_,
     ad_state |-> ad_state, err |-> "", generated |-> FALSE,
     cleaned |-> FALSE, stopped |-> FALSE, started |-> FALSE]

\* Mutant: only a healthy Active Directory protects the record.
DeleteRejection_onlyHealthy(record, ad_state) ==
    IF record.name = "AD_MACHINE_ACCOUNT" /\ ad_state = "HEALTHY"
    THEN "Active Directory machine account keytab may not be deleted while the Active Directory service is enabled."
    ELSE ""

\* lines 947-952: the CallError for the record of the machine account, ""
\* when none.
DeleteRejection(record, ad_state) ==
    IF record.name = "AD_MACHINE_ACCOUNT"
    THEN IF ad_state # "DISABLED"
         THEN "Active Directory machine account keytab may not be deleted while the Active Directory service is enabled."
         ELSE ""
    ELSE ""

InitDelete ==
    /\ now = 0
    /\ ccache = NoCache
    /\ ds_enabled = TRUE
    /\ kdc \in {k \in KdcPolicies :
                    /\ k.renewable /\ k.life = SetMax(Lifetimes)
                    /\ k.renew_life = SetMax(RenewLifetimes)}
    /\ jobstate = [j \in JobIds |-> "NONE"]
    /\ th = [t \in Threads |-> IF t \in Callers THEN IdleTh ELSE NewJobTh]
    /\ ev = NoEvent
    /\ others = [p \in OtherPaths |-> "absent"]
    /\ kin = NoCall
    /\ cred = NoCall
    /\ pk = NoCall
    /\ dns = NoCall
    /\ \E store \in DeleteStores, id_ \in {1, 2, 3}, ad_state \in AdStates :
          kt = DeleteCall(store, id_, ad_state)

\* lines 946-952: get_instance raises when no record has the id; the record
\* of the machine account is refused unless Active Directory is disabled.
DeleteCheck ==
    /\ kt.pc = "call"
    /\ LET found == SelectSeq(kt.store, LAMBDA r : r.id = kt.id) IN
       IF found = <<>>
       THEN kt' = [kt EXCEPT !.pc = "raised", !.err = "InstanceNotFound"]
       ELSE LET e == DeleteRejection(found[1], kt.ad_state) IN
            IF e # ""
            THEN kt' = [kt EXCEPT !.pc = "raised", !.err = e]
            ELSE kt' = [kt EXCEPT !.pc = "delete"]
    /\ UNCHANGED <<service, ccache, others, kin, cred, pk, dns>>

\* line 954: datastore.delete.
DeleteRecord ==
    /\ kt.pc = "delete"
    /\ kt' = [kt EXCEPT !.pc = "generate",
                        !.store = SelectSeq(@, LAMBDA r : r.id # kt.id)]
    /\ UNCHANGED <<service, ccache, others, kin, cred, pk, dns>>

\* lines 955-956: etc.generate kerberos, then _cleanup_kerberos_principals.
DeleteGenerate ==
    /\ kt.pc = "generate"
    /\ kt' = [kt EXCEPT !.pc = "stop", !.generated = TRUE, !.cleaned = TRUE]
    /\ UNCHANGED <<service, ccache, others, kin, cred, pk, dns>>

\* line 957: kerberos.stop, whose CallError (a failed kdestroy) leaves
\* do_delete.
DeleteStop ==
    /\ kt.pc = "stop"
    /\ \/ kt' = [kt EXCEPT !.pc = "start", !.stopped = TRUE]
       \/ kt' = [kt EXCEPT !.pc = "raised", !.stopped = TRUE,
                           !.err = "kdestroy failed"]
    /\ UNCHANGED <<service, ccache, others, kin, cred, pk, dns>>

\* lines 958-963: kerberos.start, whose exceptions are logged.
DeleteStart ==
    /\ kt.pc = "start"
    /\ \E failed \in BOOLEAN :
          kt' = [kt EXCEPT !.pc = "returned", !.started = TRUE,
                          !.err = IF failed THEN "logged" ELSE ""]
    /\ UNCHANGED <<service, ccache, others, kin, cred, pk, dns>>

NextDelete ==
    \/ DeleteCheck
    \/ DeleteRecord
    \/ DeleteGenerate
    \/ DeleteStop
    \/ DeleteStart

SpecDelete == InitDelete /\ [][NextDelete]_vars

\* ============================================================ parse_klist
\* KerberosService.parse_klist (lines 527-593) on its own: one call on an
\* output of `klist -ef` drawn from the sets below.  The text is a sequence
\* of lines (klistbuf.splitlines()), a line a sequence of characters.
Hours == {1, 2, 3}

\* The time stamps klist prints, by the hour of the day.
Stamps == [h \in Hours |->
    <<"1", "1", "/", "0", "3", "/", "2", "6", " ", "0">> \o <<ToString(h)>>
        \o <<":", "0", "0", ":", "0", "0">>]

\* time.mktime(time.strptime(x, "%m/%d/%y %H:%M:%S")), in seconds since the
\* midnight of the stamps; -1 stands for strptime's ValueError.
mktime(x) ==
    IF \E h \in Hours : Stamps[h] = x
    THEN 3600 * (CHOOSE h \in Hours : Stamps[h] = x)
    ELSE -1

\* lines 33-47: the ticket flags, name by letter.
krb_tkt_flag ==
    ("F" :> "FORWARDABLE")
    @@ ("f" :> "FORWARDED")
    @@ ("P" :> "PROXIABLE")
    @@ ("p" :> "PROXY")
    @@ ("D" :> "POSTDATEABLE")
    @@ ("d" :> "POSTDATED")
    @@ ("R" :> "RENEWABLE")
    @@ ("I" :> "INITIAL")
    @@ ("i" :> "INVALID")
    @@ ("H" :> "HARDWARE_AUTHENTICATED")
    @@ ("A" :> "PREAUTHENTICATED")
    @@ ("T" :> "TRANSIT_POLICY_CHECKED")
    @@ ("O" :> "OKAY_AS_DELEGATE")
    @@ ("a" :> "ANONYMOUS")

\* Mutant: a letter that is no ticket flag is left out.
FlagNames_skipUnknown(flags) ==
    LET known == SelectSeq(flags, LAMBDA f : f \in DOMAIN krb_tkt_flag)
    IN [err |-> "", names |-> [i \in 1..Len(known) |-> krb_tkt_flag[known[i]]]]

\* line 586: [krb_tkt_flag(f).name for f in flags]; a letter that is no
\* member raises ValueError.
FlagNames(flags) ==
    IF \E i \in 1..Len(flags) : flags[i] \notin DOMAIN krb_tkt_flag
    THEN [err |-> "ValueError: krb_tkt_flag", names |-> <<>>]
    ELSE [err |-> "", names |-> [i \in 1..Len(flags) |-> krb_tkt_flag[flags[i]]]]

\* lines 27-30: the values of krb5ccache as text.
CcacheText ==
    [SYSTEM |-> <<"k", "r", "b", "5", "c", "c", "_", "0">>,
     TEMP |-> <<"k", "r", "b", "5", "c", "c", "_", "m", "i", "d", "d", "l", "e", "w", "a", "r", "e", "_", "t", "e", "m", "p">>,
     USER |-> <<"k", "r", "b", "5", "c", "c", "_">>]

\* str.startswith
StartsWith(str, prefix) ==
    Len(str) >= Len(prefix) /\ SubSeq(str, 1, Len(prefix)) = prefix

\* str.isdigit of one character
IsDigit(c) == c \in {"0", "1", "2", "3", "4", "5", "6", "7", "8", "9"}

\* str.strip(chars): the characters of the set leave both ends.
StripSet(str, chars) ==
    LET keep == {i \in 1..Len(str) : str[i] \notin chars}
    IN IF keep = {} THEN <<>> ELSE SubSeq(str, SetMin(keep), SetMax(keep))

\* str.strip()
Strip(str) == StripSet(str, {" ", "\t"})

\* str.split(sep, maxsplit) for a separator of any length; maxsplit -1 is
\* no limit.
RECURSIVE SplitOn(_, _, _)
SplitOn(str, sep, maxsplit) ==
    LET at == {i \in 1..(Len(str) - Len(sep) + 1) :
                  SubSeq(str, i, i + Len(sep) - 1) = sep}
    IN IF maxsplit = 0 \/ at = {}
       THEN <<str>>
       ELSE <<SubSeq(str, 1, SetMin(at) - 1)>>
              \o SplitOn(SubSeq(str, SetMin(at) + Len(sep), Len(str)), sep,
                         IF maxsplit < 0 THEN maxsplit ELSE maxsplit - 1)

\* The words of the klist -ef text parse_klist looks for, and sample values
\* of the rest: the encryption types, the column heading, the client.
KlistWords ==
    [ticket_cache |->
       <<"T", "i", "c", "k", "e", "t", " ", "c", "a",
         "c", "h", "e", ":", " ">>,
     default |->
       <<"D", "e", "f", "a", "u", "l", "t", " ", "p",
         "r", "i", "n", "c", "i", "p", "a",
         "l", ":", " ">>,
     etype |->
       <<"\t", "E", "t", "y", "p", "e", " ", "(", "s",
         "k", "e", "y", ",", " ", "t", "k",
         "t", ")", ":", " ">>,
     renew |->
       <<"\t", "r", "e", "n", "e", "w">>,
     renew_until |->
       <<"\t", "r", "e", "n", "e", "w", " ", "u", "n",
         "t", "i", "l", " ">>,
     flags |->
       <<"F", "l", "a", "g", "s", ":", " ">>,
     etypes |->
       <<"a", "e", "s", "2", "5", "6", "-", "c", "t",
         "s", "-", "h", "m", "a", "c", "-",
         "s", "h", "a", "1", "-", "9", "6",
         ",", " ", "a", "e", "s", "2", "5",
         "6", "-", "c", "t", "s", "-", "h",
         "m", "a", "c", "-", "s", "h", "a",
         "1", "-", "9", "6">>,
     columns |->
       <<"V", "a", "l", "i", "d", " ", "s", "t", "a",
         "r", "t", "i", "n", "g", " ", " ",
         " ", " ", " ", "E", "x", "p", "i",
         "r", "e", "s", " ", " ", " ", " ",
         " ", " ", " ", " ", " ", " ", " ",
         " ", "S", "e", "r", "v", "i", "c",
         "e", " ", "p", "r", "i", "n", "c",
         "i", "p", "a", "l">>,
     client |->
       <<"n", "a", "s", "$", "@", "E", "X", ".", "C",
         "O", "M">>]

\* The characters of a text as a set.
CharsOf(str) == {str[i] : i \in 1..Len(str)}

\* lines 557-577: one line after a ticket line, read into the locals of the
\* ticket; i counts from 1.
LookAhead(tickets, i, st) ==
    IF st.stop \/ st.err # "" THEN st
    ELSE IF i > Len(tickets) THEN [st EXCEPT !.stop = TRUE]
    ELSE IF tickets[i] = <<>> THEN [st EXCEPT !.err = "IndexError"]
    ELSE IF IsDigit(tickets[i][1]) THEN [st EXCEPT !.stop = TRUE]
    ELSE IF StartsWith(tickets[i], KlistWords.etype)
         THEN [st EXCEPT !.etype = Strip(tickets[i]), !.stop = TRUE]
    ELSE IF StartsWith(tickets[i], KlistWords.renew)
         THEN LET parts == SplitOn(tickets[i], <<",">>, -1) IN
              IF Len(parts) # 2 THEN [st EXCEPT !.err = "ValueError: unpack"]
              ELSE LET renew_until == mktime(StripSet(parts[1], CharsOf(KlistWords.renew_until)))
                       flags == SplitOn(parts[2], KlistWords.flags, -1)
                   IN IF renew_until < 0 THEN [st EXCEPT !.err = "ValueError: strptime"]
                      ELSE IF Len(flags) < 2 THEN [st EXCEPT !.err = "IndexError"]
                      ELSE [st EXCEPT !.renew_until = renew_until, !.flags = flags[2]]
    ELSE LET extra == SplitOn(tickets[i], <<",", " ">>, 1) IN
         IF Len(extra) < 2 THEN [st EXCEPT !.err = "IndexError"]
         ELSE [st EXCEPT !.flags = Strip(SubSeq(extra[1], 8, Len(extra[1]))),
                         !.etype = Strip(extra[2])]

\* lines 547-587: the ticket of the ticket line idx.
ParseTicket(tickets, idx, default_principal) ==
    LET d == SplitOn(tickets[idx], <<" ", " ">>, -1)
        issued == mktime(d[1])
    IN IF issued < 0 THEN [err |-> "ValueError: strptime"]
       ELSE IF Len(d) < 2 THEN [err |-> "IndexError"]
       ELSE IF mktime(d[2]) < 0 THEN [err |-> "ValueError: strptime"]
       ELSE IF Len(d) < 3 THEN [err |-> "IndexError"]
       ELSE LET st0 == [renew_until |-> 0, flags |-> <<>>, etype |-> <<>>,
                        stop |-> FALSE, err |-> ""]
                st == LookAhead(tickets, idx + 2, LookAhead(tickets, idx + 1, st0))
                names == FlagNames(st.flags)
            IN IF st.err # "" THEN [err |-> st.err]
               ELSE IF names.err # "" THEN [err |-> names.err]
               ELSE [err |-> "",
                     ticket |-> [issued |-> issued, expires |-> mktime(d[2]),
                                 renew_until |-> st.renew_until,
                                 client |-> default_principal, server |-> d[3],
                                 etype |-> st.etype, flags |-> names.names]]

\* lines 535-587: the body of the loop for line idx.
ParseLine(tickets, idx, acc) ==
    LET e == tickets[idx]
        cache == SplitOn(StripSet(e, CharsOf(KlistWords.ticket_cache)), <<":">>, 1)
        named == {n \in DOMAIN CcacheText : CcacheText[n] = Strip(cache[2])}
        a1 == IF ~StartsWith(e, SubSeq(KlistWords.ticket_cache, 1, 12)) THEN acc
              ELSE IF Len(cache) # 2 THEN [acc EXCEPT !.err = "ValueError: unpack"]
              ELSE IF cache[1] # <<"F", "I", "L", "E">>
                   THEN [acc EXCEPT !.ticket_cache = [type |-> cache[1], name |-> cache[2]]]
              ELSE IF named = {} THEN [acc EXCEPT !.err = "ValueError: krb5ccache"]
              ELSE [acc EXCEPT !.ticket_cache =
                       [type |-> cache[1], name |-> CHOOSE n \in named : TRUE]]
    IN IF a1.err # "" THEN a1
       ELSE IF StartsWith(e, SubSeq(KlistWords.default, 1, 7))
            THEN LET p == SplitOn(e, <<":">>, -1) IN
                 IF Len(p) < 2 THEN [a1 EXCEPT !.err = "IndexError"]
                 ELSE [a1 EXCEPT !.default_principal = Strip(p[2])]
       ELSE IF e # <<>> /\ IsDigit(e[1])
            THEN LET t == ParseTicket(tickets, idx, a1.default_principal) IN
                 IF t.err # "" THEN [a1 EXCEPT !.err = t.err]
                 ELSE [a1 EXCEPT !.tickets = Append(@, t.ticket)]
       ELSE a1

\* lines 528-593: the loop over the lines.
RECURSIVE ParseLines(_, _, _)
ParseLines(tickets, idx, acc) ==
    IF idx > Len(tickets) \/ acc.err # "" THEN acc
    ELSE ParseLines(tickets, idx + 1, ParseLine(tickets, idx, acc))

\* parse_klist: the snapshot, or the exception; None is the empty text.
parse_klist(klistbuf) ==
    ParseLines(klistbuf, 1,
               [err |-> "", default_principal |-> <<>>,
                ticket_cache |-> [type |-> <<>>, name |-> ""], tickets |-> <<>>])

\* ---- the output of klist -ef
\* The flag strings of the tickets: two the tool prints, and two with a
\* letter that is no ticket flag.
FlagStrings == {<<"F", "I", "A">>, <<"F", "R", "I", "A">>,
                <<"F", "X", "A">>, <<"F", "I", "x">>}

\* The tickets of a cache: a KDC grants expires >= issued, and the renew-till
\* time it was asked for (0: none).
CacheTickets ==
    {t \in [issued : Hours, expires : Hours, renew_until : Hours \cup {0},
            flags : FlagStrings, server : {<<"k", "r", "b", "t", "g", "t", "/", "E", "X", ".", "C", "O", "M", "@", "E", "X", ".", "C", "O", "M">>}] :
        t.issued <= t.expires}

\* A second ticket of the cache.
ServiceTicket ==
    [issued |-> 1, expires |-> 2, renew_until |-> 0, flags |-> <<"F", "A">>,
     server |-> <<"h", "o", "s", "t", "/", "n", "a", "s", "@", "E", "X", ".", "C", "O", "M">>]

\* The lines klist -ef prints for one ticket.
KlistTicket(t) ==
    <<Stamps[t.issued] \o <<" ", " ">> \o Stamps[t.expires] \o <<" ", " ">> \o t.server>>
    \o (IF t.renew_until # 0
        THEN <<KlistWords.renew_until \o Stamps[t.renew_until] \o <<",", " ">>
                 \o KlistWords.flags \o t.flags,
               KlistWords.etype \o KlistWords.etypes>>
        ELSE <<<<"\t">> \o KlistWords.flags \o t.flags \o <<",", " ">>
                 \o SubSeq(KlistWords.etype, 2, Len(KlistWords.etype)) \o KlistWords.etypes>>)

\* The output of klist -ef for the cache file of a path with the tickets tks.
RECURSIVE KlistTickets(_)
KlistTickets(tks) ==
    IF tks = <<>> THEN <<>> ELSE KlistTicket(Head(tks)) \o KlistTickets(Tail(tks))

KlistOutput(path, tks) ==
    <<KlistWords.ticket_cache \o <<"F", "I", "L", "E", ":">> \o path,
      KlistWords.default \o KlistWords.client,
      <<>>,
      KlistWords.columns>> \o KlistTickets(tks)

\* The cache files klist is run on: the three of krb5ccache, the USER one
\* with its uid.
CachePaths == {CcacheText.SYSTEM, CcacheText.TEMP,
               CcacheText.USER \o <<"1", "0", "0", "0">>}

\* A parse_klist call entered with the text of the tickets tks.
PkCall(path, tks) ==
    [pc |-> "call", path |-> path, input |-> tks,
     klistbuf |-> KlistOutput(path, tks), err |-> "", result |-> <<>>]

InitParse ==
    /\ now = 0
    /\ ccache = NoCache
    /\ ds_enabled = TRUE
    /\ kdc \in {k \in KdcPolicies :
                    /\ k.renewable /\ k.life = SetMax(Lifetimes)
                    /\ k.renew_life = SetMax(RenewLifetimes)}
    /\ jobstate = [j \in JobIds |-> "NONE"]
    /\ th = [t \in Threads |-> IF t \in Callers THEN IdleTh ELSE NewJobTh]
    /\ ev = NoEvent
    /\ others = [p \in OtherPaths |-> "absent"]
    /\ kin = NoCall
    /\ cred = NoCall
    /\ kt = NoCall
    /\ dns = NoCall
    /\ \E path \in CachePaths, t \in CacheTickets, more \in BOOLEAN :
          pk = PkCall(path, IF more THEN <<t, ServiceTicket>> ELSE <<t>>)

\* lines 527-593: the call returns the snapshot or raises.
ParseKlist ==
    /\ pk.pc = "call"
    /\ LET r == parse_klist(pk.klistbuf) IN
       IF r.err # ""
       THEN pk' = [pk EXCEPT !.pc = "raised", !.err = r.err]
       ELSE pk' = [pk EXCEPT !.pc = "returned",
                             !.result = [default_principal |-> r.default_principal,
                                         ticket_cache |-> r.ticket_cache,
                                         tickets |-> r.tickets]]
    /\ UNCHANGED <<service, ccache, others, kin, cred, kt, dns>>

NextParse == ParseKlist

SpecParse == InitParse /\ [][NextParse]_vars

\* ========================================================= unregister_dns
\* ActiveDirectoryService.unregister_dns (activedirectory_/dns.py, lines
\* 26-71) on its own: one call, against the DNS records of the host's name and
\* the addresses of the interfaces.
Addresses == {"10.0.0.5", "10.0.0.9", "fd00::5"}

\* ipaddress.ip_address(ip).version
IpVersion(ip) == IF ip = "fd00::5" THEN 6 ELSE 4

\* What dnsclient.forward_lookup finds for the name: that it does not exist,
\* another failure of the resolver, or address records.
Lookups ==
    {[kind |-> k, addresses |-> {}] : k \in {"NXDOMAIN", "NoNameservers"}}
    \cup {[kind |-> "answer", addresses |-> a] : a \in (SUBSET Addresses) \ {{}}}

NxdomainWarning == "DNS lookup failed with NXDOMAIN"

\* An unregister_dns call entered with ad; no effect yet.
DnsCall(allow, lookup, in_use) ==
    [pc |-> "call", allow_dns_updates |-> allow, lookup |-> lookup,
     ips_in_use |-> in_use, dns_addresses |-> {}, log |-> <<>>,
     updates |-> <<>>, err |-> ""]

\* Mutant: the lookup's NXDOMAIN is passed on to the caller.
OnNxdomain_raises(d) == [d EXCEPT !.pc = "raised", !.err = "NXDOMAIN"]

\* lines 37-43: NXDOMAIN is logged as a warning and the call returns.
OnNxdomain(d) ==
    [d EXCEPT !.pc = "returned", !.log = Append(@, NxdomainWarning)]

\* lines 57-66: one DELETE for every address of the lookup.
DeletePayload(hostname, dns_addresses) ==
    {[command |-> "DELETE", name |-> hostname, address |-> ip,
      type |-> IF IpVersion(ip) = 4 THEN "A" ELSE "AAAA"] : ip \in dns_addresses}

InitDns ==
    /\ now = 0
    /\ ccache = NoCache
    /\ ds_enabled = TRUE
    /\ kdc \in {k \in KdcPolicies :
                    /\ k.renewable /\ k.life = SetMax(Lifetimes)
                    /\ k.renew_life = SetMax(RenewLifetimes)}
    /\ jobstate = [j \in JobIds |-> "NONE"]
    /\ th = [t \in Threads |-> IF t \in Callers THEN IdleTh ELSE NewJobTh]
    /\ ev = NoEvent
    /\ others = [p \in OtherPaths |-> "absent"]
    /\ kin = NoCall
    /\ cred = NoCall
    /\ kt = NoCall
    /\ pk = NoCall
    /\ \E allow \in BOOLEAN, lookup \in Lookups, in_use \in SUBSET Addresses :
          dns = DnsCall(allow, lookup, in_use)

\* lines 27-31: nothing is done unless DNS updates are allowed.
UnregisterEnter ==
    /\ dns.pc = "call"
    /\ dns' = [dns EXCEPT !.pc = IF dns.allow_dns_updates THEN "lookup" ELSE "returned"]
    /\ UNCHANGED <<service, ccache, others, kin, cred, kt, pk>>

\* lines 33-43: the forward lookup of the host's name.
UnregisterLookup ==
    /\ dns.pc = "lookup"
    /\ dns' = CASE dns.lookup.kind = "NXDOMAIN" -> OnNxdomain(dns)
                [] dns.lookup.kind = "answer" ->
                     [dns EXCEPT !.pc = "in_use",
                                 !.dns_addresses = dns.lookup.addresses]
                [] OTHER -> [dns EXCEPT !.pc = "raised", !.err = dns.lookup.kind]
    /\ UNCHANGED <<service, ccache, others, kin, cred, kt, pk>>

\* lines 45-66: a name none of whose addresses is in use here raises
\* CallError; otherwise the DELETE payload is built.
UnregisterInUse ==
    /\ dns.pc = "in_use"
    /\ dns' = IF dns.dns_addresses \cap dns.ips_in_use = {}
              THEN [dns EXCEPT !.pc = "raised", !.err = "CallError: different computer"]
              ELSE [dns EXCEPT !.pc = "nsupdate"]
    /\ UNCHANGED <<service, ccache, others, kin, cred, kt, pk>>

\* lines 68-71: dns.nsupdate is called with the payload; its CallError is
\* logged as a warning.
UnregisterUpdate ==
    /\ dns.pc = "nsupdate"
    /\ LET payload == DeletePayload("nas.example.com", dns.dns_addresses) IN
       \/ dns' = [dns EXCEPT !.pc = "returned", !.updates = Append(@, payload)]
       \/ dns' = [dns EXCEPT !.pc = "returned", !.updates = Append(@, payload),
                             !.log = Append(@, "Failed to update DNS")]
    /\ UNCHANGED <<service, ccache, others, kin, cred, kt, pk>>

NextDns ==
    \/ UnregisterEnter
    \/ UnregisterLookup
    \/ UnregisterInUse
    \/ UnregisterUpdate

SpecDns == InitDns /\ [][NextDns]_vars

\* ================================================================ claims
\* The step just taken read a snapshot (klist succeeded) and decided on it.
Decided == ev.tk.exists /\ ev.d \notin {"fail", "timeout"}

Remaining == ev.tk.expires - now

\* renew() has just evaluated the snapshot of its klist (lines 623-651).
RenewEvaluated == ev.a = "renew_klist" /\ Decided

\* A job never takes a step once it is aborted.
AbortedJobsAreSilent ==
    /\ \A j \in JobIds : jobstate[j] = "ABORTED" => th[j] = DoneJobTh
    /\ ev.t \in JobIds => jobstate[ev.t] # "ABORTED"

\* C1: in every reachable state at most one wait_for_renewal job is RUNNING.
C1_AtMostOneRunning == Cardinality(RunningJobs) <= 1

\* C1 witness: a second start() was issued while a job runs: one job RUNNING,
\* one more enqueued.
C1_Witness == RunningJobs # {} /\ QueuedJobs # {}

C3_StopAbortsThenDestroys ==
    /\ (ev.op = "stop" /\ ev.a = "get_jobs") =>
          /\ RunningJobs = {}
          /\ th[ev.t].pc = "st_kdestroy"
          /\ ev.d = "abort" => jobstate[ev.job] = "ABORTED"
    /\ (ev.op = "stop" /\ ev.a = "kdestroy" /\ ev.d = "return") => ~ccache.exists
    /\ AbortedJobsAreSilent

\* C3 witness: stop() has returned after aborting a running job and
\* destroying a cache that held a ticket.
C3_Witness ==
    /\ ev.op = "stop" /\ ev.a = "kdestroy" /\ ev.d = "return" /\ ev.tk.exists
    /\ \E j \in JobIds : jobstate[j] = "ABORTED"

C5_KinitTimeoutFailsStart ==
    (ev.a = "kinit" /\ ev.d = "timeout") =>
        /\ ev.launched = 0
        /\ th[ev.t].pc \in {"idle", "done"}
        /\ ev.t \in JobIds => jobstate[ev.t] = "FAILED"

\* C5 witness: a start() RPC call has just failed on the acquisition timeout.
C5_Witness == ev.op = "start" /\ ev.a = "kinit" /\ ev.d = "timeout"

\* C6: a job aborted during its check-interval sleep is ABORTED at once,
\* whatever is left of the sleep, and takes no further step.
C6_AbortDuringSleep ==
    /\ (ev.a = "get_jobs" /\ ev.d = "abort" /\ ev.loop = "w_sleep") =>
          (jobstate[ev.job] = "ABORTED" /\ th[ev.job] = DoneJobTh)
    /\ \A j \in JobIds : jobstate[j] = "ABORTED" => ~Active(j)
    /\ ev.t \in JobIds => jobstate[ev.t] \in {"RUNNING", "FAILED"}

\* C6 witness: a job was aborted in its sleep before the sleep was over.
C6_Witness ==
    /\ ev.a = "get_jobs" /\ ev.d = "abort" /\ ev.loop = "w_sleep"
    /\ now < ev.wake

\* C7: renew() on an expired ticket (remaining < 0), or with no valid ticket
\* (_klist_test returned false), enters start() and not the renewal operation.
C7_ExpiredReacquires ==
    /\ (RenewEvaluated /\ Remaining < 0) => th[ev.t].pc = "s_kinit"
    /\ (ev.a = "klist_test" /\ ev.d = "start") => th[ev.t].pc = "s_kinit"
    /\ (ev.a = "klist_test" /\ ev.d # "hang" /\ ~(ev.tk.exists /\ ev.tk.expires > now))
          => th[ev.t].pc = "s_kinit"
    /\ (RenewEvaluated /\ th[ev.t].pc = "r_kinitR") => Remaining >= 0

\* C7 witness: renew() found a renewable ticket expired whose renewal deadline
\* is still far, and entered start().
C7_Witness ==
    /\ RenewEvaluated /\ Remaining < 0 /\ ev.tk.renewable
    /\ (2 * KRB_TKT_CHECK_INTERVAL) + now <= ev.tk.renew_until
    /\ th[ev.t].pc = "s_kinit"

\* C8: renew() on an unexpired ticket within the check interval that lacks the
\* RENEWABLE flag enters start() and not the renewal operation.
C8_NotRenewableReacquires ==
    (RenewEvaluated /\ Remaining >= 0 /\ Remaining <= KRB_TKT_CHECK_INTERVAL
        /\ ~ev.tk.renewable) => th[ev.t].pc = "s_kinit"

\* C8 witness: the renewal job found a non-renewable ticket close to expiry
\* and entered start().
C8_Witness ==
    /\ RenewEvaluated /\ Remaining >= 0 /\ Remaining <= KRB_TKT_CHECK_INTERVAL
    /\ ~ev.tk.renewable /\ ev.op = "wfr" /\ th[ev.t].pc = "s_kinit"

\* C9: for an unexpired renewable ticket within the check interval renew()
\* enters start() when now + 2*check_interval > renew_until and invokes
\* kinit -R exactly when now + 2*check_interval <= renew_until.
C9_RenewOrReacquire ==
    (RenewEvaluated /\ Remaining >= 0 /\ Remaining <= KRB_TKT_CHECK_INTERVAL
        /\ ev.tk.renewable) =>
        IF now + 2 * KRB_TKT_CHECK_INTERVAL > ev.tk.renew_until
        THEN th[ev.t].pc = "s_kinit"
        ELSE th[ev.t].pc = "r_kinitR"

\* C9 witness: renew() chose kinit -R exactly at the deadline
\* (now + 2*check_interval = renew_until).
C9_Witness ==
    /\ RenewEvaluated /\ Remaining >= 0 /\ Remaining <= KRB_TKT_CHECK_INTERVAL
    /\ ev.tk.renewable /\ now + 2 * KRB_TKT_CHECK_INTERVAL = ev.tk.renew_until
    /\ th[ev.t].pc = "r_kinitR"

\* C10: whenever the renewal job reads a snapshot whose ticket has more than
\* check_interval left, it goes to sleep for check_interval without touching
\* the cache, and after the sleep it inspects the cache again.
C10_FarFromExpirySleeps ==
    /\ (ev.t \in JobIds /\ Decided /\ Remaining > KRB_TKT_CHECK_INTERVAL
        /\ ev.a \in {"wfr_klist", "wfr_reklist", "renew_klist", "renewed_klist",
                     "start_klist"})
          => /\ jobstate[ev.t] = "RUNNING"
             /\ th[ev.t].pc = "w_sleep"
             /\ th[ev.t].wake = now + KRB_TKT_CHECK_INTERVAL
             /\ ccache = ev.tk
    /\ (ev.a = "wake") =>
          /\ th[ev.t].pc = "w_reklist"
          /\ now >= ev.wake /\ ev.wake >= KRB_TKT_CHECK_INTERVAL

\* C10 witness: the job woke from its sleep, inspected a ticket that still
\* has more than check_interval left, and sleeps again.
C10_Witness ==
    /\ ev.t \in JobIds /\ ev.a = "wfr_reklist" /\ Decided
    /\ Remaining > KRB_TKT_CHECK_INTERVAL
    /\ th[ev.t].pc = "w_sleep"

\* A step of a thread ended in an error: the tool it awaited failed or timed out.
ErrorEvent == ev.d \in {"fail", "timeout"}

\* kinit -R has just failed or timed out inside the renewal job.
RenewalFailedInJob == ev.t \in JobIds /\ ev.a = "kinit_R" /\ ErrorEvent

MonitoringPcs ==
    {"w_klist", "w_reklist", "w_sleep", "r_test", "r_klist", "r_kinitR",
     "r_klist2", "s_kinit", "s_wfr", "s_klist", "hung"}

\* C12: a RUNNING renewal job is always suspended at an await of its loop; it
\* leaves RUNNING only through the abort of a stop() or through a step of its
\* own that ended in an error, never through a step whose tool succeeded.
C12_TaskEndsOnlyByAbortOrError ==
    /\ [](\A j \in JobIds : jobstate[j] = "RUNNING" => th[j].pc \in MonitoringPcs)
    /\ [][\A j \in JobIds :
            (jobstate[j] = "RUNNING" /\ jobstate'[j] # "RUNNING") =>
                \/ (ev'.op = "stop" /\ ev'.a = "get_jobs" /\ ev'.d = "abort"
                     /\ ev'.job = j /\ jobstate'[j] = "ABORTED")
                \/ (ev'.t = j /\ ev'.d \in {"fail", "timeout"}
                     /\ jobstate'[j] = "FAILED")]_vars

\* C12 witness: the job has renewed the ticket with kinit -R, read the new
\* snapshot and gone back to sleep.
C12_Witness ==
    /\ ev.t \in JobIds /\ ev.a = "renewed_klist" /\ ev.d = "return"
    /\ jobstate[ev.t] = "RUNNING" /\ th[ev.t].pc = "w_sleep"

\* C13: status() always returns a boolean and ends the call: false when the
\* klist -s check exceeds its timeout or exits non-zero, true only when the
\* System cache holds an unexpired ticket; it changes neither cache nor jobs.
C13_StatusNeverRaises ==
    (ev.a = "status") =>
        /\ ev.d \in {"true", "false"}
        /\ th[ev.t] = IdleTh
        /\ ev.loop \in {"timeout", "rc1"} => ev.d = "false"
        /\ ev.d = "true" => (ev.tk.exists /\ ev.tk.expires > now)
        /\ ccache = ev.tk

\* C13 witness: status() returned false on the timeout although the System
\* cache holds an unexpired ticket.
C13_Witness ==
    /\ ev.a = "status" /\ ev.loop = "timeout" /\ ev.d = "false"
    /\ ccache.exists /\ ccache.expires > now

\* C15 as claimed: every external tool is awaited under a timeout, so no
\* operation and no renewal job stays suspended at a tool that never returns.
C15_EveryToolCallBounded ==
    \A t \in Threads : th[t].pc # "hung"

\* C16 as claimed: after the timeout error of klist(), of kinit -R or of the
\* acquisition of start(), the external process of that await is not running.
C16_TimedOutProcessTerminated ==
    (ev.d = "timeout"
     /\ ev.a \in {"kinit", "kinit_R", "start_klist", "renew_klist",
                  "renewed_klist", "wfr_klist", "wfr_reklist"})
        => ev.proc # "running"

\* C14: no step of start(), stop(), renew(), status() or the renewal job
\* creates, changes or destroys a cache other than the System cache.
C14_OnlySystemCache == [][others' = others]_vars

\* C14 witness: with the other caches present, a ticket was acquired, a
\* renewal job ran and was aborted, and stop() destroyed the System cache.
C14_Witness ==
    /\ ev.op = "stop" /\ ev.a = "kdestroy" /\ ev.d = "return" /\ ev.tk.exists
    /\ \E j \in JobIds : jobstate[j] = "ABORTED"
    /\ \A p \in OtherPaths : others[p] = "present"

\* do_kinit was called with a USER cache selector the code forbids.
UserCacheForbidden ==
    /\ kin.pc # "none"
    /\ kin.data.kinit_options.ccache = "USER"
    /\ \/ has_principal(kin.data.krb5_cred)
       \/ kin.data.kinit_options.ccache_uid = 0

\* C17: a do_kinit call with a USER selector and a keytab principal, or with
\* a USER selector and uid 0, never gets past its check: it spawns no process,
\* writes no file and no cache, and ends with the CallError of the check.
C17_UserCacheRejectedFirst ==
    UserCacheForbidden =>
        /\ kin.pc \in {"call", "raised"}
        /\ kin.procs = <<>> /\ kin.stdin = ""
        /\ kin.conf = kin.conf0 /\ ~kin.regen /\ ~kin.chown
        /\ ccache = NoCache /\ \A p \in OtherPaths : others[p] = "absent"
        /\ kin.pc = "raised" =>
              kin.err \in {<<"User-specific ccache not permitted with keytab-based kinit">>,
                           <<"User-specific ccache not permitted for uid 0">>}

\* C17 witness: USER selector with uid 0 and password credentials, a KDC
\* override and no configuration file: rejected.
C17_Witness ==
    /\ UserCacheForbidden /\ kin.pc = "raised"
    /\ ~has_principal(kin.data.krb5_cred)
    /\ kin.data.kinit_options.ccache_uid = 0
    /\ kin.data.kinit_options.kdc_override.domain # None
    /\ kin.conf0 = "absent"

\* The do_kinit call of kin with another password.
WithPassword(pw) == [kin.data EXCEPT !.krb5_cred.password = pw]

\* s is one of the strings of the sequence q.
Among(s, q) == \E i \in 1..Len(q) : q[i] = s

\* C18: in a password-based do_kinit the password is no argument of the
\* process spawned and no part of the error raised; the argument list and,
\* for the same diagnostic, the error are the same for every password.
C18_PasswordNotExposed ==
    (kin.pc # "none" /\ ~has_principal(kin.data.krb5_cred)) =>
        /\ \A i \in 1..Len(kin.procs) :
              /\ kin.procs[i] = KinitArgv(kin.data)
              /\ ~Among(kin.data.krb5_cred.password, kin.procs[i])
        /\ ~Among(kin.data.krb5_cred.password, kin.cmd)
        /\ ~Among(kin.data.krb5_cred.password, kin.err)
        /\ \A pw \in Passwords :
              /\ KinitArgv(WithPassword(pw)) = KinitArgv(kin.data)
              /\ DoKinitRejection(WithPassword(pw)) = DoKinitRejection(kin.data)
              /\ \A diag \in Diagnostics :
                    KinitError(WithPassword(pw), diag) = KinitError(kin.data, diag)
        /\ (kin.pc = "raised" /\ kin.procs # <<>>) =>
              \E diag \in Diagnostics : kin.err = KinitError(kin.data, diag)

\* C18 witness: a password kinit was spawned, got the password on its stdin
\* and failed.
C18_Witness ==
    /\ kin.pc = "raised" /\ ~has_principal(kin.data.krb5_cred)
    /\ Len(kin.procs) = 1 /\ kin.stdin = kin.data.krb5_cred.password

\* get_cred has acted on a configuration with / without a principal.
CredActed == cred.pc \notin {"none", "call"}

\* The required fields missing altogether from the call's configuration.
AbsentFields ==
    {k \in ConfKeys :
        /\ Among(k, RequiredFields(cred.data.dstype))
        /\ k \notin DOMAIN cred.data.conf}

\* C19: a configuration with a non-empty kerberos_principal yields exactly
\* {kerberos_principal}, whatever the type and the other fields, with no
\* validation error and no realm lookup.
C19_PrincipalWins ==
    (CredActed /\ Truthy(cred.data.conf, "kerberos_principal")) =>
        /\ cred.pc = "returned"
        /\ DOMAIN cred.result = {"kerberos_principal"}
        /\ cred.result.kerberos_principal = cred.data.conf.kerberos_principal
        /\ cred.verrors = <<>> /\ cred.err = ""
        /\ cred.lookups = 0

\* C19 witness: an LDAP configuration with a principal and none of the bind
\* fields has been resolved.
C19_Witness ==
    /\ CredActed /\ cred.data.dstype = "DS_TYPE_LDAP"
    /\ DOMAIN cred.data.conf = {"kerberos_principal"}
    /\ Truthy(cred.data.conf, "kerberos_principal")
    /\ cred.pc = "returned"

\* C20: without a principal, a configuration lacking required fields fails
\* with one ValidationErrors that lists, in order, every required field that
\* is absent or empty, before any realm lookup and with no result.
C20_AllMissingFieldsListed ==
    (CredActed /\ ~Truthy(cred.data.conf, "kerberos_principal")
        /\ AbsentFields # {}) =>
        /\ cred.pc = "raised" /\ cred.err = "ValidationErrors"
        /\ \A k \in AbsentFields : Among("conf." \o k, cred.verrors)
        /\ \A k \in ConfKeys :
              Among("conf." \o k, cred.verrors) <=>
                  (Among(k, RequiredFields(cred.data.dstype))
                   /\ ~Truthy(cred.data.conf, k))
        /\ cred.lookups = 0 /\ cred.result = <<>>

\* C20 witness: an LDAP configuration with none of its three required fields
\* failed with all three listed.
C20_Witness ==
    /\ CredActed /\ cred.data.dstype = "DS_TYPE_LDAP"
    /\ Cardinality(AbsentFields) = 3
    /\ cred.pc = "raised" /\ Len(cred.verrors) = 3

\* The call has all the fields its directory-service type requires and no
\* principal.
CredComplete(dstype) ==
    /\ CredActed /\ cred.data.dstype = dstype
    /\ ~Truthy(cred.data.conf, "kerberos_principal")
    /\ \A i \in 1..Len(RequiredFields(dstype)) :
          Truthy(cred.data.conf, RequiredFields(dstype)[i])

\* Position i of a distinguished name is escaped by a backslash.
DnEscaped(dn, i) == i > 1 /\ dn[i - 1] = "\\"

\* The value of the first RDN component of a distinguished name (RFC 4514):
\* from the first '=' up to the first ',' or '+' that is not escaped.
FirstRdnValue(dn) ==
    LET ends == {i \in 1..Len(dn) : dn[i] \in {",", "+"} /\ ~DnEscaped(dn, i)}
        e == IF ends = {} THEN Len(dn) + 1 ELSE SetMin(ends)
        q == SetMin({i \in 1..Len(dn) : dn[i] = "="})
    IN SubSeq(dn, q + 1, e - 1)

\* The bind DN of the call is a distinguished name and its realm id names a
\* realm record.
LdapWellFormed ==
    /\ \E i \in 1..Len(cred.data.conf.binddn) : cred.data.conf.binddn[i] = "="
    /\ cred.data.conf.kerberos_realm \in DOMAIN Realms

\* C21 as claimed: LDAP mode with every required field and no principal
\* returns the bind password and, as username, the value of the first RDN
\* component of the bind DN, '@' and the realm name.
C21_LdapUsername ==
    (CredComplete("DS_TYPE_LDAP") /\ LdapWellFormed /\ cred.pc # "query") =>
        /\ cred.pc = "returned"
        /\ cred.result.password = cred.data.conf.bindpw
        /\ cred.result.username =
              FirstRdnValue(cred.data.conf.binddn) \o <<"@">>
                  \o Realms[cred.data.conf.kerberos_realm]

LowerLetters == <<"a", "b", "c", "d", "e", "f", "g", "h", "i", "j", "k", "l", "m", "n", "o", "p", "q", "r", "s", "t", "u", "v", "w", "x", "y", "z">>

UpperLetters == <<"A", "B", "C", "D", "E", "F", "G", "H", "I", "J", "K", "L", "M", "N", "O", "P", "Q", "R", "S", "T", "U", "V", "W", "X", "Y", "Z">>

\* up is str with every ASCII lower-case letter replaced by its capital.
IsUpperOf(up, str) ==
    /\ Len(up) = Len(str)
    /\ \A i \in 1..Len(str) :
          IF \E n \in 1..Len(LowerLetters) : LowerLetters[n] = str[i]
          THEN \E n \in 1..Len(LowerLetters) :
                  LowerLetters[n] = str[i] /\ UpperLetters[n] = up[i]
          ELSE up[i] = str[i]

\* C22: Active Directory mode with every required field and no principal
\* returns exactly username and password: the bind password, and the bind name,
\* '@' and the domain name in upper case ('svc' and 'example.com' give
\* 'svc@EXAMPLE.COM'); no realm lookup is made.
C22_AdUsername ==
    CredComplete("DS_TYPE_ACTIVEDIRECTORY") =>
        LET conf == cred.data.conf
            n == Len(conf.bindname)
            u == cred.result.username
        IN
        /\ cred.pc = "returned" /\ cred.lookups = 0
        /\ DOMAIN cred.result = {"username", "password"}
        /\ cred.result.password = conf.bindpw
        /\ Len(u) = n + 1 + Len(conf.domainname)
        /\ SubSeq(u, 1, n) = conf.bindname /\ u[n + 1] = "@"
        /\ IsUpperOf(SubSeq(u, n + 2, Len(u)), conf.domainname)
        /\ (conf.bindname = <<"s", "v", "c">> /\ conf.domainname = <<"e", "x", "a", "m", "p", "l", "e", ".", "c", "o", "m">>)
              => u = <<"s", "v", "c", "@", "E", "X", "A", "M", "P", "L", "E", ".", "C", "O", "M">>

\* C22 witness: the call with bind name 'svc' and a mixed-case domain name
\* has returned.
C22_Witness ==
    /\ CredComplete("DS_TYPE_ACTIVEDIRECTORY") /\ cred.pc = "returned"
    /\ cred.data.conf.domainname = <<"A", "d", ".", "E", "x", "a", "m", "p", "l", "e", ".", "c", "o", "m">>
    /\ cred.result.username = <<"s", "v", "c", "@", "A", "D", ".", "E", "X", "A", "M", "P", "L", "E", ".", "C", "O", "M">>

\* The do_kinit call of kin carries a KDC override.
HasOverride == kin.pc # "none" /\ kin.data.kinit_options.kdc_override.kdc # None

MachineRecords(store) == SelectSeq(store, LAMBDA r : r.name = "AD_MACHINE_ACCOUNT")

\* The entries of a keytab that belong to the machine account.
MachineEntries(entries) == SelectSeq(entries, LAMBDA e : e.principal \in MachineFamily)

\* C24 as claimed: right after a cycle has stored a blob in the record
\* AD_MACHINE_ACCOUNT, the blob holds exactly the machine-account entries of
\* the system keytab, whatever the keytab holds and however the listing went.
C24_BlobHasOnlyMachineEntries ==
    (kt.pc = "put" /\ kt.stored) =>
        \A i \in 1..Len(kt.store) :
            kt.store[i].name = "AD_MACHINE_ACCOUNT" =>
                kt.store[i].file = b64encode(MachineEntries(kt.sys))

\* C25: the store never holds two records named AD_MACHINE_ACCOUNT; a record
\* of that name that was there before the cycles keeps its id; once a cycle
\* has stored a blob there is one; and the records of other names are those
\* of before the cycles, unchanged.
C25_OneMachineRecord ==
    kt.pc # "none" =>
        /\ Len(MachineRecords(kt.store)) <= 1
        /\ kt.stored => Len(MachineRecords(kt.store)) = 1
        /\ MachineRecords(kt.store0) # <<>> =>
              /\ Len(kt.store) = Len(kt.store0)
              /\ MachineRecords(kt.store)[1].id = MachineRecords(kt.store0)[1].id
        /\ SelectSeq(kt.store, LAMBDA r : r.name # "AD_MACHINE_ACCOUNT")
              = SelectSeq(kt.store0, LAMBDA r : r.name # "AD_MACHINE_ACCOUNT")
        /\ \A i, j \in 1..Len(kt.store) : kt.store[i].id = kt.store[j].id => i = j

\* C25 witness: a cycle has just put a new blob into the record that was there
\* before the cycles.
C25_Witness ==
    /\ kt.pc = "put" /\ kt.stored
    /\ MachineRecords(kt.store0) # <<>>
    /\ MachineRecords(kt.store)[1].file # MachineRecords(kt.store0)[1].file

\* C26 as claimed: no cycle of check_updated_keytab ends by raising.
C26_CycleNeverRaises == kt.pc # "none" => kt.last # "raised"

\* Some ticket of the parsed text carries a letter that is no ticket flag.
UnknownFlagLetter ==
    \E i \in 1..Len(pk.input) :
        \E j \in 1..Len(pk.input[i].flags) :
            pk.input[i].flags[j] \notin DOMAIN krb_tkt_flag

\* C27 as claimed: every ticket of a snapshot parse_klist returns has
\* expires >= issued, and renew_until = 0 or renew_until > expires.
C27_SnapshotTimesOrdered ==
    pk.pc = "returned" =>
        \A i \in 1..Len(pk.result.tickets) :
            LET t == pk.result.tickets[i] IN
            /\ t.expires >= t.issued
            /\ t.renew_until = 0 \/ t.renew_until > t.expires

\* C28: a text in which a ticket's flag string holds a letter that is no
\* ticket flag makes parse_klist raise, with no snapshot; and a snapshot that
\* is returned has every ticket of the text, with one flag name for every
\* letter of its flag string, in order.
C28_UnknownFlagRaises ==
    /\ (pk.pc \notin {"none", "call"} /\ UnknownFlagLetter) =>
          pk.pc = "raised" /\ pk.result = <<>>
    /\ pk.pc = "returned" =>
          /\ Len(pk.result.tickets) = Len(pk.input)
          /\ \A i \in 1..Len(pk.input) :
                LET names == pk.result.tickets[i].flags
                    letters == pk.input[i].flags
                IN /\ Len(names) = Len(letters)
                   /\ \A j \in 1..Len(letters) :
                         /\ letters[j] \in DOMAIN krb_tkt_flag
                         /\ names[j] = krb_tkt_flag[letters[j]]

\* C28 witness: the text of the System cache with the flag string FXA has
\* been parsed, and the call raised for the letter.
C28_Witness ==
    /\ pk.pc = "raised" /\ pk.path = CcacheText.SYSTEM
    /\ pk.input[1].flags = <<"F", "X", "A">>
    /\ pk.err = "ValueError: krb_tkt_flag"

\* C29: an unregister_dns call that made its forward lookup (DNS updates are
\* allowed) and whose lookup has reported NXDOMAIN has
\* returned without an error, has logged the warning and nothing else, and
\* has passed no DNS update to dns.nsupdate.
C29_NxdomainLoggedNoDelete ==
    (/\ dns.pc \notin {"none", "call", "lookup"}
     /\ dns.allow_dns_updates /\ dns.lookup.kind = "NXDOMAIN") =>
        /\ dns.pc = "returned" /\ dns.err = ""
        /\ dns.log = <<NxdomainWarning>>
        /\ dns.updates = <<>>

\* C29 witness: DNS updates are allowed, the name does not exist, and the
\* call has returned.
C29_Witness ==
    /\ dns.pc = "returned" /\ dns.allow_dns_updates
    /\ dns.lookup.kind = "NXDOMAIN" /\ dns.log # <<>>

\* C30 as claimed: a start() that goes on from its acquisition to the launch
\* of the renewal task has acquired a ticket, which is in the System cache.
C30_LaunchOnlyAfterAcquisition ==
    (ev.a = "kinit" /\ th[ev.t].pc = "s_wfr") =>
        /\ ev.d = "ok"
        /\ ccache.exists /\ ccache = ev.tk

\* stop() has just returned: its kdestroy completed (line 693).
StopReturned == ev.op = "stop" /\ ev.a = "kdestroy" /\ ev.d = "return"

\* C31 as claimed: when stop() returns no renewal job is running, and the
\* step after its return is never a waiting renewal job starting to run.
C31_NoTaskAfterStop ==
    [][/\ StopReturned' => RunningJobs' = {}
       /\ StopReturned => ev'.a # "job_run"]_vars

CycleStarts == kt.pc = "idle" /\ kt'.mtime = kt.mtime /\ kt' # kt

\* The cycle this step starts returns at once and leaves the secrets, the
\* working copy, the records and the marker alone.
CycleIsNoop ==
    /\ kt'.pc = "idle" /\ kt'.last = "returned"
    /\ ~kt'.backup /\ kt'.listing = "none" /\ ~kt'.stored
    /\ kt'.samba_exists = kt.samba_exists
    /\ kt'.store = kt.store
    /\ kt'.cache = kt.cache

\* C33: whatever a cycle finds, it decides to return at once when the system
\* is not ready, Active Directory is disabled, the keytab is missing or the
\* mtime equals the marker; and a cycle that so decides makes no backup, no
\* extraction, no write of a record and no update of the marker.
C33_EarlyReturnsChangeNothing ==
    /\ [](\A in \in CycleInputs :
            (~in.ready \/ in.ad_state = "DISABLED" \/ ~in.exists
             \/ kt.cache = kt.mtime)
            => CheckDecision(in, kt.cache, kt.mtime)
                  \in {"not_ready", "no_keytab", "same_mtime"})
    /\ [][(CycleStarts /\ kt'.why \in {"not_ready", "no_keytab", "same_mtime"})
            => CycleIsNoop]_vars

\* C33 witness: a cycle has returned at once, Active Directory disabled or the
\* keytab missing, although the mtime differed from the marker.
C33_Witness ==
    /\ kt.pc = "idle" /\ kt.last = "returned" /\ kt.why = "no_keytab"
    /\ kt.cache # kt.mtime

\* C35 as claimed: in a cycle that has invoked the secrets backup, the record
\* AD_MACHINE_ACCOUNT has been stored already.
C35_BackupAfterReconciliation == kt.backup => kt.stored

\* C36: the step that ends a reconciling cycle sets the marker to the mtime
\* the keytab has then; and a cycle that starts right after it, the mtime of
\* the keytab still that of the marker, returns at once and changes nothing.
C36_MarkerMakesNextCycleNoop ==
    [][/\ (kt.pc = "put" /\ kt'.pc # "put") =>
            (kt'.pc = "idle" /\ kt'.last = "returned" /\ kt'.stored
             /\ kt'.cache = kt'.mtime)
       /\ (CycleStarts /\ kt.last = "returned" /\ kt.stored
           /\ kt.cache = kt.mtime) =>
            (kt'.why \in {"not_ready", "no_keytab", "same_mtime"}
             /\ CycleIsNoop)]_vars

\* C36 witness: a cycle that followed the setting of the marker has found the
\* mtime equal to it and returned.
C36_Witness ==
    /\ kt.pc = "idle" /\ kt.last = "returned" /\ kt.why = "same_mtime"
    /\ kt.cache = kt.mtime /\ kt.cache > 0
    /\ MachineRecords(kt.store) # <<>>

\* C37 as claimed: the deletions applied to the working copy leave every
\* machine-account entry of the copy in place, whatever happened to the
\* system keytab between the listing and the copy.
C37_StaleSlotsSpareMachineEntries ==
    [][(kt.pc = "prune" /\ kt'.pc = "upsert")
        => MachineEntries(kt'.samba) = MachineEntries(kt.samba)]_vars

\* C38: a cycle that finds the system ready, the keytab there, its mtime
\* different from the marker and the two password-change timestamps equal
\* decides to return; such a cycle makes no backup and writes no record, and
\* it leaves the marker as it was, different from the mtime, so that the next
\* cycle compares the timestamps again.
C38_SamePasswordLeavesMarkerStale ==
    /\ [](\A in \in CycleInputs :
            (in.ready /\ in.ad_state # "DISABLED" /\ in.exists
             /\ kt.cache # kt.mtime /\ in.ts.dbconfig = in.ts.secrets)
            => CheckDecision(in, kt.cache, kt.mtime) = "same_password")
    /\ [][(CycleStarts /\ kt'.why = "same_password")
            => (CycleIsNoop /\ kt'.cache # kt'.mtime)]_vars

\* C38 witness: a cycle has returned on equal timestamps and the marker is
\* still not the mtime of the keytab.
C38_Witness ==
    /\ kt.pc = "idle" /\ kt.last = "returned" /\ kt.why = "same_password"
    /\ kt.cache # kt.mtime

\* The slots of the entries a listing marked for deletion.
Targets(to_delete) == {to_delete[i].slot : i \in 1..Len(to_delete)}

\* The entries of a keytab whose slots are not among the targets, in the
\* order of the file.
RECURSIVE Untargeted(_, _, _)
Untargeted(entries, targets, slot) ==
    IF slot > Len(entries) THEN <<>>
    ELSE (IF slot \in targets THEN <<>> ELSE <<entries[slot]>>)
         \o Untargeted(entries, targets, slot + 1)

\* C34: the delent commands of one batch name their slots in strictly
\* descending order and every one of them names a slot the copy still has;
\* the pruned copy holds exactly the entries of the keytab whose slots were
\* not marked for deletion.
C34_DescendingBatchKeepsTheRest ==
    /\ (kt.pc = "prune" /\ kt.listing = "ok") =>
          LET q == Reversed(kt.to_delete) IN
          /\ \A i, j \in 1..Len(q) : i < j => q[i].slot > q[j].slot
          /\ ~BadSlot(Len(kt.samba), [i \in 1..Len(q) |-> q[i].slot])
    /\ (kt.pc = "upsert" /\ kt.listing = "ok") =>
          /\ kt.samba = Untargeted(kt.sys, Targets(kt.to_delete), 1)
          /\ Len(kt.samba) = Len(kt.sys) - Len(kt.to_delete)

\* C34 witness: a batch of two deletions, the first target ahead of an entry
\* that stays, has been applied to a keytab of four entries.
C34_Witness ==
    /\ kt.pc = "upsert" /\ kt.listing = "ok"
    /\ Len(kt.sys) = 4 /\ Len(kt.to_delete) = 2 /\ Len(kt.samba) = 2
    /\ \E i \in 1..Len(kt.to_delete) : kt.to_delete[i].slot < 3

\* C40 as claimed: the klist and the kdestroy that follow a do_kinit with the
\* same cache selector work on the cache file do_kinit acquired into: neither
\* raises for want of the cache, and after the kdestroy that file is gone.
C40_SameCachePath ==
    kin.pc \in {"listed", "klist_raised", "destroyed", "kdestroy_raised"} =>
        LET opts == kin.data.kinit_options
            path == ccache_path([ccache |-> opts.ccache,
                                 ccache_uid |-> opts.ccache_uid])
        IN /\ kin.inspected \in {"", path}
           /\ kin.destroyed \in {"", path}
           /\ kin.pc \notin {"klist_raised", "kdestroy_raised"}
           /\ kin.pc = "destroyed" => ~CacheHolds(path)

\* The do_delete call of kt names the record of the machine account while
\* Active Directory is not disabled.
DeletesLiveMachineRecord ==
    /\ kt.ad_state # "DISABLED"
    /\ \E i \in 1..Len(kt.store0) :
          kt.store0[i].id = kt.id /\ kt.store0[i].name = "AD_MACHINE_ACCOUNT"

\* C39: a do_delete of the record AD_MACHINE_ACCOUNT while the state of Active
\* Directory is not DISABLED has, once it has acted, raised its CallError;
\* the store is as it was, the record in it, the configuration has not been
\* regenerated and kerberos stop and start have not been called.
C39_MachineKeytabDeleteRefused ==
    (DeletesLiveMachineRecord /\ kt.pc # "call") =>
        /\ kt.pc = "raised"
        /\ kt.err \notin {"", "InstanceNotFound", "kdestroy failed", "logged"}
        /\ kt.store = kt.store0
        /\ \E i \in 1..Len(kt.store) : kt.store[i].id = kt.id
        /\ ~kt.generated /\ ~kt.cleaned /\ ~kt.stopped /\ ~kt.started

\* C39 witness: the delete of the machine account's record was refused with
\* Active Directory in the state FAULTED.
C39_Witness ==
    /\ DeletesLiveMachineRecord /\ kt.ad_state = "FAULTED"
    /\ kt.pc = "raised" /\ Len(MachineRecords(kt.store)) = 1

====
